---------------------------- MODULE Spec2Model ----------------------------
(***************************************************************************)
(* Model of codex_session_history: the converter of Codex session jsonl    *)
(* logs to markdown traces (convert_codex_session_to_md.py) and the        *)
(* session locator (query_codex_sessions.py).                              *)
(*                                                                         *)
(* Python str values are TLA+ strings (Len, SubSeq and \o act on them as   *)
(* len(), slicing and + do).                                               *)
(***************************************************************************)
EXTENDS Integers, Sequences, FiniteSets, TLC

VARIABLES
    \* truncate_text: the text, the policy, and the results of one and two calls
    text, mode, threshold, keep, out1, out2, calls,
    \* summarize_record: the record and what the call gave
    arg_record, ret_summary,
    \* extract_message_blocks: the content and the blocks returned
    arg_content, ret_blocks,
    \* iter_jsonl and render_session_markdown: the session file, its physical
    \* lines, the pairs yielded and the document assembled
    session_file, arg_lines, ret_records, ret_doc,
    \* find_sessions: the sessions root, the day directories and the files
    \* under it, the workspace and the date range asked for, and the result
    sessions_root, fs_dirs, fs_files, arg_workspace, arg_start, arg_end, ret_paths,
    \* format_code_block: the text, the language and the lines returned
    arg_text, arg_language, ret_fenced,
    \* main: the arguments, the input files found, the files of the file
    \* system, how many input files the loop has handled, the document in
    \* memory and the paths generated
    args, input_files, disk, handled, markdown, generated,
    \* which call has been made
    pc

tvars == <<text, mode, threshold, keep, out1, out2, calls>>
svars == <<arg_record, ret_summary>>
evars == <<arg_content, ret_blocks>>
cvars == <<session_file, arg_lines, ret_records, ret_doc>>
lvars == <<sessions_root, fs_dirs, fs_files, arg_workspace, arg_start, arg_end, ret_paths>>
fvars == <<arg_text, arg_language, ret_fenced>>
mvars == <<args, input_files, disk, handled, markdown, generated>>
vars == <<tvars, svars, evars, cvars, lvars, fvars, mvars, pc>>

(***************************************************************************)
(* Bounds of the model.                                                    *)
(***************************************************************************)
MaxThreshold == 44
MaxTextLen == 46
\* the longest content list given to extract_message_blocks
MaxItems == 3
\* the most physical lines of a session file
MaxLines == 2
\* the days the sessions root has directories for, and the most files under it
MaxDays == 2
MaxFiles == 2
\* the longest text given to format_code_block
MaxFenceTextLen == 7
\* the most items of the inputs of main, and the highest index of an output
\* name that is taken before main runs
MaxInputs == 2
MaxTaken == 3

Min(a, b) == IF a <= b THEN a ELSE b
Max(a, b) == IF a >= b THEN a ELSE b

(***************************************************************************)
(* str(n) of a non-negative int, as f"{n}" formats it.                     *)
(***************************************************************************)
Digit(d) == SubSeq("0123456789", d + 1, d + 1)

RECURSIVE DecStr(_)
DecStr(n) == IF n < 10 THEN Digit(n) ELSE DecStr(n \div 10) \o Digit(n % 10)

(***************************************************************************)
(* JSON values as Python holds them after json.loads: None, bool, int,     *)
(* str, list, and dict (its items in insertion order, which json.dumps     *)
(* follows). Numbers are ints; strings hold no control character other     *)
(* than "\n", "\t" and "\r".                                               *)
(***************************************************************************)
JNull == [k |-> "null"]
JBool(b) == [k |-> "bool", vb |-> b]
JNum(n) == [k |-> "num", vn |-> n]
JStr(s) == [k |-> "str", vs |-> s]
JList(l) == [k |-> "list", vl |-> l]
JObj(o) == [k |-> "obj", vo |-> o]
Item(key, val) == [key |-> key, val |-> val]

\* isinstance(v, dict), isinstance(v, list), isinstance(v, str), v is None
IsDict(v) == v.k = "obj"
IsList(v) == v.k = "list"
IsStr(v) == v.k = "str"
IsNone(v) == v.k = "null"

\* key in d, d.get(key, default), d.get(key)
HasKey(d, key) == \E i \in 1..Len(d.vo) : d.vo[i].key = key
DictGetOr(d, key, default) ==
    IF HasKey(d, key)
    THEN d.vo[CHOOSE i \in 1..Len(d.vo) : d.vo[i].key = key].val
    ELSE default
DictGet(d, key) == DictGetOr(d, key, JNull)

\* d[key] = val on a dict: a new key goes last, a known key keeps its place
DictSet(d, key, val) ==
    IF HasKey(d, key)
    THEN JObj([i \in 1..Len(d.vo) |->
                 IF d.vo[i].key = key THEN Item(key, val) ELSE d.vo[i]])
    ELSE JObj(Append(d.vo, Item(key, val)))

\* bool(v): what `if v` and `v or default` test
Truthy(v) ==
    CASE v.k = "null" -> FALSE
      [] v.k = "bool" -> v.vb
      [] v.k = "num" -> v.vn # 0
      [] v.k = "str" -> v.vs # ""
      [] v.k = "list" -> v.vl # <<>>
      [] v.k = "obj" -> v.vo # <<>>

Ch(s, i) == SubSeq(s, i, i)

\* str(n) of an int
IntStr(n) == IF n < 0 THEN "-" \o DecStr(0 - n) ELSE DecStr(n)

RECURSIVE Spaces(_)
Spaces(n) == IF n <= 0 THEN "" ELSE Spaces(n - 1) \o " "

\* json.dumps of a str with ensure_ascii=False: quoted, with ", \ and the
\* control characters escaped
RECURSIVE JsonEscape(_, _)
JsonEscape(s, i) ==
    IF i > Len(s) THEN ""
    ELSE LET c == Ch(s, i)
             e == CASE c = "\"" -> "\\\""
                    [] c = "\\" -> "\\\\"
                    [] c = "\n" -> "\\n"
                    [] c = "\t" -> "\\t"
                    [] c = "\r" -> "\\r"
                    [] OTHER -> c
         IN  e \o JsonEscape(s, i + 1)

JsonQuote(s) == "\"" \o JsonEscape(s, 1) \o "\""

(***************************************************************************)
(* convert_codex_session_to_md.py: to_pretty_json, json.dumps(value,       *)
(* ensure_ascii=False, indent=2)                                           *)
(***************************************************************************)
RECURSIVE JsonDump(_, _)
RECURSIVE JsonDumpList(_, _, _)
RECURSIVE JsonDumpItems(_, _, _)

\* the items of a list from the i-th on, one to a line at indent ind
JsonDumpList(l, i, ind) ==
    IF i > Len(l) THEN ""
    ELSE Spaces(ind) \o JsonDump(l[i], ind)
            \o (IF i < Len(l) THEN ",\n" ELSE "\n")
            \o JsonDumpList(l, i + 1, ind)

\* the items of a dict from the i-th on, one to a line at indent ind
JsonDumpItems(o, i, ind) ==
    IF i > Len(o) THEN ""
    ELSE Spaces(ind) \o JsonQuote(o[i].key) \o ": " \o JsonDump(o[i].val, ind)
            \o (IF i < Len(o) THEN ",\n" ELSE "\n")
            \o JsonDumpItems(o, i + 1, ind)

JsonDump(v, ind) ==
    CASE v.k = "null" -> "null"
      [] v.k = "bool" -> IF v.vb THEN "true" ELSE "false"
      [] v.k = "num" -> IntStr(v.vn)
      [] v.k = "str" -> JsonQuote(v.vs)
      [] v.k = "list" ->
            IF v.vl = <<>> THEN "[]"
            ELSE "[\n" \o JsonDumpList(v.vl, 1, ind + 2) \o Spaces(ind) \o "]"
      [] v.k = "obj" ->
            IF v.vo = <<>> THEN "{}"
            ELSE "{\n" \o JsonDumpItems(v.vo, 1, ind + 2) \o Spaces(ind) \o "}"

to_pretty_json(value) == JsonDump(value, 0)

(***************************************************************************)
(* str(value) and repr(value), as f"{value}" and str() give them. A str    *)
(* in a list or dict is shown in single quotes (the strings of the model   *)
(* hold no quote that would change that).                                  *)
(***************************************************************************)
RECURSIVE PyRepr(_)
RECURSIVE PyReprList(_, _)
RECURSIVE PyReprItems(_, _)

PyReprList(l, i) ==
    IF i > Len(l) THEN ""
    ELSE PyRepr(l[i]) \o (IF i < Len(l) THEN ", " ELSE "") \o PyReprList(l, i + 1)

PyReprItems(o, i) ==
    IF i > Len(o) THEN ""
    ELSE "'" \o o[i].key \o "': " \o PyRepr(o[i].val)
            \o (IF i < Len(o) THEN ", " ELSE "") \o PyReprItems(o, i + 1)

PyRepr(v) ==
    CASE v.k = "null" -> "None"
      [] v.k = "bool" -> IF v.vb THEN "True" ELSE "False"
      [] v.k = "num" -> IntStr(v.vn)
      [] v.k = "str" -> "'" \o v.vs \o "'"
      [] v.k = "list" -> "[" \o PyReprList(v.vl, 1) \o "]"
      [] v.k = "obj" -> "{" \o PyReprItems(v.vo, 1) \o "}"

PyStr(v) == IF v.k = "str" THEN v.vs ELSE PyRepr(v)

(***************************************************************************)
(* convert_codex_session_to_md.py: to_text                                 *)
(***************************************************************************)
to_text(value) ==
    CASE value.k = "null" -> ""
      [] value.k = "str" -> value.vs
      [] value.k \in {"obj", "list"} -> to_pretty_json(value)
      [] OTHER -> PyStr(value)

(***************************************************************************)
(* json.loads, as json/decoder.py and json/scanner.py decode a str.        *)
(* Indexes are Python's (the first character is at 0). A result is         *)
(*   [st |-> "ok", val, end]      a value, and the index after it          *)
(*   [st |-> "err", msg, pos]     JSONDecodeError(msg, s, pos)             *)
(*   [st |-> "raise", exc]        an exception that is no JSONDecodeError  *)
(*   [st |-> "unsupported"]       a document outside the modelled part of  *)
(*                                JSON: a float, a \u, \b or \f escape,    *)
(*                                NaN, Infinity, an int of 10 digits and   *)
(*                                more that int() converts.                *)
(***************************************************************************)
Ok(val, end) == [st |-> "ok", val |-> val, end |-> end]
Err(msg, pos) == [st |-> "err", msg |-> msg, pos |-> pos]
Raised(exc) == [st |-> "raise", exc |-> exc]
Unsupported == [st |-> "unsupported"]

\* sys.int_info.default_max_str_digits of the interpreter: int() of a str
\* of more digits raises ValueError, which is no JSONDecodeError
MaxStrDigits == 4300
\* the most digits of an int the model holds
MaxIntDigits == 9

\* s[i:i + 1]
At(s, i) == IF i >= 0 /\ i < Len(s) THEN SubSeq(s, i + 1, i + 1) ELSE ""
\* s[i:i + n]
Slice(s, i, n) == SubSeq(s, i + 1, Min(i + n, Len(s)))

IsWs(c) == c \in {" ", "\t", "\n", "\r"}
IsDigit(c) == c \in {"0", "1", "2", "3", "4", "5", "6", "7", "8", "9"}
DigitVal(c) == CHOOSE d \in 0..9 : Digit(d) = c

\* WHITESPACE.match(s, i).end()
RECURSIVE SkipWs(_, _)
SkipWs(s, i) == IF i < Len(s) /\ IsWs(At(s, i)) THEN SkipWs(s, i + 1) ELSE i

\* the first index of lo..hi that holds no digit, where hi holds none and
\* every index between i and lo holds one
RECURSIVE FirstNonDigit(_, _, _)
FirstNonDigit(s, lo, hi) ==
    IF lo >= hi THEN lo
    ELSE LET mid == (lo + hi) \div 2
         IN  IF \A k \in lo..mid : IsDigit(At(s, k))
             THEN FirstNonDigit(s, mid + 1, hi)
             ELSE FirstNonDigit(s, lo, mid)

\* the index after the digits that start at i
DigitsEnd(s, i) == FirstNonDigit(s, i, Len(s))

\* int() of the digits s[i:j]
RECURSIVE DigitsVal(_, _, _)
DigitsVal(s, i, j) ==
    IF j <= i THEN 0 ELSE DigitsVal(s, i, j - 1) * 10 + DigitVal(At(s, j - 1))

\* NUMBER_RE.match(s, idx): (-?(?:0|[1-9]\d*))(\.\d+)?([eE][-+]?\d+)?
MatchNumber(s, idx) ==
    LET neg == At(s, idx) = "-"
        i == IF neg THEN idx + 1 ELSE idx
        j == IF At(s, i) = "0" THEN i + 1 ELSE DigitsEnd(s, i)
        frac == At(s, j) = "." /\ IsDigit(At(s, j + 1))
        e == IF At(s, j + 1) \in {"+", "-"} THEN j + 2 ELSE j + 1
        exp == At(s, j) \in {"e", "E"} /\ IsDigit(At(s, e))
    IN  IF ~IsDigit(At(s, i)) THEN [st |-> "nomatch"]
        ELSE IF frac \/ exp THEN Unsupported
        ELSE IF j - i > MaxStrDigits THEN Raised("ValueError")
        ELSE IF j - i > MaxIntDigits THEN Unsupported
        ELSE Ok(JNum(IF neg THEN 0 - DigitsVal(s, i, j) ELSE DigitsVal(s, i, j)), j)

\* scanstring(s, end): end is the index after the opening quote; acc holds
\* the characters decoded so far
RECURSIVE ScanStringFrom(_, _, _, _)
ScanStringFrom(s, begin, i, acc) ==
    LET c == At(s, i)
        esc == At(s, i + 1)
    IN  IF c = "" THEN Err("Unterminated string starting at", begin)
        ELSE IF c = "\"" THEN Ok(JStr(acc), i + 1)
        ELSE IF c \in {"\n", "\t", "\r"} THEN Err("Invalid control character at", i)
        ELSE IF c # "\\" THEN ScanStringFrom(s, begin, i + 1, acc \o c)
        ELSE IF esc = "" THEN Err("Unterminated string starting at", begin)
        ELSE IF esc \in {"\"", "\\", "/"} THEN ScanStringFrom(s, begin, i + 2, acc \o esc)
        ELSE IF esc = "n" THEN ScanStringFrom(s, begin, i + 2, acc \o "\n")
        ELSE IF esc = "t" THEN ScanStringFrom(s, begin, i + 2, acc \o "\t")
        ELSE IF esc = "r" THEN ScanStringFrom(s, begin, i + 2, acc \o "\r")
        ELSE IF esc \in {"u", "b", "f"} THEN Unsupported
        ELSE Err("Invalid \\escape", i)

ScanString(s, end) == ScanStringFrom(s, end - 1, end, "")

RECURSIVE ScanOnce(_, _)
RECURSIVE ObjectLoop(_, _, _)
RECURSIVE ArrayLoop(_, _, _)

\* JSONObject((s, end), ...): end is the index after the opening brace
JSONObject(s, end0) ==
    LET end == IF At(s, end0) # "\"" THEN SkipWs(s, end0) ELSE end0
        nextchar == At(s, end)
    IN  IF nextchar = "}" THEN Ok(JObj(<<>>), end + 1)
        ELSE IF nextchar # "\""
        THEN Err("Expecting property name enclosed in double quotes", end)
        ELSE ObjectLoop(s, end + 1, JObj(<<>>))

\* the while loop of JSONObject: a key, a colon, a value, then a brace or a comma
ObjectLoop(s, end0, pairs) ==
    LET key == ScanString(s, end0)
    IN  IF key.st # "ok" THEN key
        ELSE
        LET colon == SkipWs(s, key.end)
        IN  IF At(s, colon) # ":" THEN Err("Expecting ':' delimiter", colon)
            ELSE
            LET value == ScanOnce(s, SkipWs(s, colon + 1))
            IN  IF value.st # "ok" THEN value
                ELSE
                LET end == SkipWs(s, value.end)
                    nextchar == At(s, end)
                    more == DictSet(pairs, key.val.vs, value.val)
                IN  IF nextchar = "}" THEN Ok(more, end + 1)
                    ELSE IF nextchar # "," THEN Err("Expecting ',' delimiter", end)
                    ELSE
                    LET quote == SkipWs(s, end + 1)
                    IN  IF At(s, quote) # "\""
                        THEN Err("Expecting property name enclosed in double quotes",
                                 quote)
                        ELSE ObjectLoop(s, quote + 1, more)

\* JSONArray((s, end), ...): end is the index after the opening bracket
JSONArray(s, end0) ==
    LET end == SkipWs(s, end0)
    IN  IF At(s, end) = "]" THEN Ok(JList(<<>>), end + 1)
        ELSE ArrayLoop(s, end, <<>>)

\* the while loop of JSONArray: a value, then a bracket or a comma
ArrayLoop(s, end0, values) ==
    LET value == ScanOnce(s, end0)
    IN  IF value.st # "ok" THEN value
        ELSE
        LET end == SkipWs(s, value.end)
            nextchar == At(s, end)
            more == Append(values, value.val)
        IN  IF nextchar = "]" THEN Ok(JList(more), end + 1)
            ELSE IF nextchar # "," THEN Err("Expecting ',' delimiter", end)
            ELSE ArrayLoop(s, SkipWs(s, end + 1), more)

\* scan_once(s, idx); StopIteration(idx) reaches every caller as
\* JSONDecodeError("Expecting value", s, idx)
ScanOnce(s, idx) ==
    LET nextchar == At(s, idx)
        number == MatchNumber(s, idx)
    IN  IF nextchar = "" THEN Err("Expecting value", idx)
        ELSE IF nextchar = "\"" THEN ScanString(s, idx + 1)
        ELSE IF nextchar = "{" THEN JSONObject(s, idx + 1)
        ELSE IF nextchar = "[" THEN JSONArray(s, idx + 1)
        ELSE IF nextchar = "n" /\ Slice(s, idx, 4) = "null" THEN Ok(JNull, idx + 4)
        ELSE IF nextchar = "t" /\ Slice(s, idx, 4) = "true"
        THEN Ok(JBool(TRUE), idx + 4)
        ELSE IF nextchar = "f" /\ Slice(s, idx, 5) = "false"
        THEN Ok(JBool(FALSE), idx + 5)
        ELSE IF number.st # "nomatch" THEN number
        ELSE IF \/ nextchar = "N" /\ Slice(s, idx, 3) = "NaN"
                \/ nextchar = "I" /\ Slice(s, idx, 8) = "Infinity"
                \/ nextchar = "-" /\ Slice(s, idx, 9) = "-Infinity"
        THEN Unsupported
        ELSE Err("Expecting value", idx)

\* JSONDecoder.decode(s), given r, what raw_decode gives
Decoded(s, r) ==
    IF r.st # "ok" THEN r
    ELSE IF SkipWs(s, r.end) # Len(s) THEN Err("Extra data", SkipWs(s, r.end))
    ELSE r

\* JSONDecoder.decode(s)
json_loads(s) == Decoded(s, ScanOnce(s, SkipWs(s, 0)))

\* s.count("\n", 0, pos) and s.rindex("\n", 0, pos) (-1 when there is none)
RECURSIVE CountNewlines(_, _)
CountNewlines(s, pos) ==
    IF pos <= 0 THEN 0
    ELSE CountNewlines(s, pos - 1) + (IF At(s, pos - 1) = "\n" THEN 1 ELSE 0)

RECURSIVE LastNewline(_, _)
LastNewline(s, pos) ==
    IF pos <= 0 THEN 0 - 1
    ELSE IF At(s, pos - 1) = "\n" THEN pos - 1 ELSE LastNewline(s, pos - 1)

\* str(err) of JSONDecodeError(msg, s, pos)
JSONDecodeErrorStr(msg, s, pos) ==
    msg \o ": line " \o DecStr(CountNewlines(s, pos) + 1)
        \o " column " \o DecStr(pos - LastNewline(s, pos))
        \o " (char " \o DecStr(pos) \o ")"

(***************************************************************************)
(* convert_codex_session_to_md.py: Block, maybe_parse_json_string,         *)
(* extract_message_blocks                                                  *)
(***************************************************************************)
Block(label, txt, language) == [label |-> label, text |-> txt, language |-> language]
TextBlock(label, txt) == Block(label, txt, "text")
JsonBlock(label, value) == Block(label, to_pretty_json(value), "json")

\* <<x>> when the condition holds: a list that an `if` appends to
Opt(cond, x) == IF cond THEN <<x>> ELSE <<>>

\* str.strip() of a str whose whitespace is " ", "\t", "\n", "\r"
RECURSIVE LStrip(_)
LStrip(s) == IF s # "" /\ IsWs(Ch(s, 1)) THEN LStrip(SubSeq(s, 2, Len(s))) ELSE s
RECURSIVE RStrip(_)
RStrip(s) ==
    IF s # "" /\ IsWs(Ch(s, Len(s))) THEN RStrip(SubSeq(s, 1, Len(s) - 1)) ELSE s
Strip(s) == LStrip(RStrip(s))

\* what leaves maybe_parse_json_string when json.loads raises an exception
\* that is no JSONDecodeError
Thrown(exc) == [k |-> "thrown", exc |-> exc]
IsThrown(v) == v.k = "thrown"

\* the try statement of maybe_parse_json_string, given r, what json.loads
\* gives
ParsedOrNone(r) ==
    CASE r.st = "ok" -> r.val
      [] r.st = "err" -> JNull
      [] r.st = "raise" -> Thrown(r.exc)

\* the value parsed from a str that starts, after stripping, with a brace or
\* a bracket and decodes; None (JNull) otherwise
maybe_parse_json_string(value) ==
    IF ~IsStr(value) THEN JNull
    ELSE IF Strip(value.vs) = "" THEN JNull
    ELSE IF Ch(Strip(value.vs), 1) \notin {"{", "["} THEN JNull
    ELSE ParsedOrNone(json_loads(Strip(value.vs)))

\* an extract_message_blocks that labels every item with a type, "unknown"
\* for an item that is no dict
extract_message_blocks_unknown_label(content) ==
    IF ~IsList(content) THEN <<>>
    ELSE [idx \in 1..Len(content.vl) |->
            LET item == content.vl[idx]
            IN  IF ~IsDict(item)
                THEN TextBlock("content[" \o DecStr(idx) \o "] (unknown)", to_text(item))
                ELSE LET ctype == DictGetOr(item, "type", JStr("unknown"))
                         txt == DictGet(item, "text")
                     IN  TextBlock("content[" \o DecStr(idx) \o "] (" \o PyStr(ctype) \o ")",
                                   IF IsNone(txt) THEN to_pretty_json(item)
                                   ELSE to_text(txt))]

extract_message_blocks(content) ==
    IF ~IsList(content) THEN <<>>
    ELSE [idx \in 1..Len(content.vl) |->
            LET item == content.vl[idx]
            IN  IF ~IsDict(item)
                THEN TextBlock("content[" \o DecStr(idx) \o "]", to_text(item))
                ELSE LET ctype == DictGetOr(item, "type", JStr("unknown"))
                         txt == DictGet(item, "text")
                     IN  TextBlock("content[" \o DecStr(idx) \o "] (" \o PyStr(ctype) \o ")",
                                   IF IsNone(txt) THEN to_pretty_json(item)
                                   ELSE to_text(txt))]

(***************************************************************************)
(* convert_codex_session_to_md.py: summarize_record. It returns            *)
(* (title, meta, blocks), or raises: [st |-> "raise", exc].                *)
(***************************************************************************)
Return(title, meta, blocks) ==
    [st |-> "return", title |-> title, meta |-> meta, blocks |-> blocks]
Raise(exc) == [st |-> "raise", exc |-> exc]

\* len(v) is defined for a str, a list and a dict; for None, a bool and an
\* int it raises TypeError
Sized(v) == v.k \in {"str", "list", "obj"}
PyLen(v) == CASE v.k = "str" -> Len(v.vs)
              [] v.k = "list" -> Len(v.vl)
              [] v.k = "obj" -> Len(v.vo)

\* v or []
OrEmptyList(v) == IF Truthy(v) THEN v ELSE JList(<<>>)

\* the fallback of lines 144-147 and 290-292
GenericSummary(record, line_type) ==
    Return(line_type, << <<"line_type", line_type>> >>,
           << JsonBlock("record", record) >>)

SessionMetaSummary(p, line_type) ==
    LET base == DictGet(p, "base_instructions")
        base_text == IF IsDict(base)
                     THEN DictGet(IF Truthy(base) THEN base ELSE JObj(<<>>), "text")
                     ELSE JNull
        git_info == DictGet(p, "git")
    IN  Return("session_meta",
               << <<"line_type", line_type>>,
                  <<"session_id", to_text(DictGet(p, "id"))>>,
                  <<"cwd", to_text(DictGet(p, "cwd"))>>,
                  <<"originator", to_text(DictGet(p, "originator"))>>,
                  <<"source", to_text(DictGet(p, "source"))>>,
                  <<"cli_version", to_text(DictGet(p, "cli_version"))>>,
                  <<"model_provider", to_text(DictGet(p, "model_provider"))>> >>,
               Opt(Truthy(base_text), TextBlock("base_instructions.text", to_text(base_text)))
                 \o Opt(~IsNone(git_info), JsonBlock("git", git_info)))

TurnContextSummary(p, line_type) ==
    Return("turn_context",
           << <<"line_type", line_type>>,
              <<"turn_id", to_text(DictGet(p, "turn_id"))>>,
              <<"cwd", to_text(DictGet(p, "cwd"))>>,
              <<"model", to_text(DictGet(p, "model"))>>,
              <<"approval_policy", to_text(DictGet(p, "approval_policy"))>>,
              <<"effort", to_text(DictGet(p, "effort"))>>,
              <<"summary", to_text(DictGet(p, "summary"))>> >>,
           Opt(~IsNone(DictGet(p, "sandbox_policy")),
               JsonBlock("sandbox_policy", DictGet(p, "sandbox_policy")))
             \o Opt(~IsNone(DictGet(p, "collaboration_mode")),
                    JsonBlock("collaboration_mode", DictGet(p, "collaboration_mode")))
             \o Opt(Truthy(DictGet(p, "user_instructions")),
                    TextBlock("user_instructions", to_text(DictGet(p, "user_instructions"))))
             \o Opt(Truthy(DictGet(p, "developer_instructions")),
                    TextBlock("developer_instructions",
                              to_text(DictGet(p, "developer_instructions")))))

EventMsgSummary(p, line_type) ==
    LET event_type == to_text(DictGetOr(p, "type", JStr("unknown")))
        title == "event_msg." \o event_type
        meta == << <<"line_type", line_type>>, <<"event_type", event_type>> >>
        images == OrEmptyList(DictGet(p, "images"))
        local_images == OrEmptyList(DictGet(p, "local_images"))
    IN  CASE event_type = "user_message" ->
                IF ~Sized(images) \/ ~Sized(local_images) THEN Raise("TypeError")
                ELSE Return(title,
                            meta \o << <<"images_count", DecStr(PyLen(images))>>,
                                       <<"local_images_count", DecStr(PyLen(local_images))>> >>,
                            << TextBlock("message", to_text(DictGet(p, "message"))) >>)
          [] event_type = "agent_message" ->
                Return(title, meta, << TextBlock("message", to_text(DictGet(p, "message"))) >>)
          [] event_type = "agent_reasoning" ->
                Return(title, meta, << TextBlock("text", to_text(DictGet(p, "text"))) >>)
          [] event_type = "token_count" ->
                Return(title, meta,
                       Opt(~IsNone(DictGet(p, "info")), JsonBlock("info", DictGet(p, "info")))
                         \o Opt(~IsNone(DictGet(p, "rate_limits")),
                                JsonBlock("rate_limits", DictGet(p, "rate_limits"))))
          [] OTHER -> Return(title, meta, << JsonBlock("payload", p) >>)

\* the summary whose one block is of a field that holds embedded JSON or
\* plain text, given parsed, what maybe_parse_json_string gives for the field
ReparsedAs(title, meta, label, raw, parsed) ==
    IF IsThrown(parsed) THEN Raise(parsed.exc)
    ELSE IF ~IsNone(parsed) THEN Return(title, meta, << JsonBlock(label, parsed) >>)
    ELSE Return(title, meta, << TextBlock(label, to_text(raw)) >>)

ReparsedSummary(title, meta, label, raw) ==
    ReparsedAs(title, meta, label, raw, maybe_parse_json_string(raw))

ResponseItemSummary(p, line_type) ==
    LET item_type == to_text(DictGetOr(p, "type", JStr("unknown")))
        meta == << <<"line_type", line_type>>, <<"item_type", item_type>> >>
        title == "response_item." \o item_type
    IN  CASE item_type = "message" ->
                LET role == to_text(DictGetOr(p, "role", JStr("unknown")))
                    phase == to_text(DictGet(p, "phase"))
                IN  Return("response_item.message." \o role,
                           meta \o << <<"role", role>> >>
                                \o Opt(phase # "", <<"phase", phase>>),
                           extract_message_blocks(DictGet(p, "content")))
          [] item_type = "reasoning" ->
                LET summary == DictGet(p, "summary")
                IN  Return(title, meta,
                           (IF IsList(summary) /\ Truthy(summary)
                            THEN extract_message_blocks(summary) ELSE <<>>)
                             \o Opt(~IsNone(DictGet(p, "content")),
                                    TextBlock("content", to_text(DictGet(p, "content"))))
                             \o Opt(~IsNone(DictGet(p, "encrypted_content")),
                                    TextBlock("encrypted_content",
                                              to_text(DictGet(p, "encrypted_content")))))
          [] item_type \in {"function_call", "custom_tool_call"} ->
                LET name == to_text(DictGetOr(p, "name", JStr("unknown_tool")))
                    call_id == to_text(DictGet(p, "call_id"))
                    status == to_text(DictGet(p, "status"))
                    arg_field == IF item_type = "function_call" THEN "arguments" ELSE "input"
                IN  ReparsedSummary("response_item." \o item_type \o "." \o name,
                                    meta \o << <<"name", name>>, <<"call_id", call_id>> >>
                                         \o Opt(status # "", <<"status", status>>),
                                    arg_field, DictGet(p, arg_field))
          [] item_type \in {"function_call_output", "custom_tool_call_output"} ->
                ReparsedSummary(title,
                                meta \o << <<"call_id", to_text(DictGet(p, "call_id"))>> >>,
                                "output", DictGet(p, "output"))
          [] item_type = "web_search_call" ->
                LET status == to_text(DictGet(p, "status"))
                    action == DictGet(p, "action")
                    action_type == IF IsDict(action) THEN to_text(DictGet(action, "type"))
                                   ELSE ""
                IN  Return(IF action_type # ""
                           THEN "response_item.web_search_call." \o action_type ELSE title,
                           meta \o << <<"status", status>> >>
                                \o Opt(action_type # "", <<"action_type", action_type>>),
                           << JsonBlock("action", action) >>)
          [] OTHER -> Return(title, meta, << JsonBlock("payload", p) >>)

summarize_record(record) ==
    LET line_type == to_text(DictGetOr(record, "type", JStr("unknown")))
        payload == DictGet(record, "payload")
    IN  IF ~IsDict(payload) THEN GenericSummary(record, line_type)
        ELSE CASE line_type = "session_meta" -> SessionMetaSummary(payload, line_type)
               [] line_type = "turn_context" -> TurnContextSummary(payload, line_type)
               [] line_type = "event_msg" -> EventMsgSummary(payload, line_type)
               [] line_type = "response_item" -> ResponseItemSummary(payload, line_type)
               [] OTHER -> GenericSummary(record, line_type)

(***************************************************************************)
(* The texts truncate_text is applied to: one text of every length up to   *)
(* MaxTextLen, its characters cycling through an alphabet so that every    *)
(* prefix is told from every other slice of the same length.               *)
(***************************************************************************)
Alphabet == "abcdefghijklmnopqrstuvwxyz"

RECURSIVE GenText(_)
GenText(n) ==
    IF n = 0 THEN ""
    ELSE GenText(n - 1) \o SubSeq(Alphabet, ((n - 1) % Len(Alphabet)) + 1,
                                            ((n - 1) % Len(Alphabet)) + 1)

Texts == { GenText(n) : n \in 0..MaxTextLen }

(***************************************************************************)
(* convert_codex_session_to_md.py: truncate_text                           *)
(***************************************************************************)
\* the marker f"\n\n[TRUNCATED: original_length={len(text)}, shown={keep}]"
TruncationSuffix(length, shown) ==
    "\n\n[TRUNCATED: original_length=" \o DecStr(length)
        \o ", shown=" \o DecStr(shown) \o "]"

\* a truncate_text that cuts at len(text) >= threshold
truncate_text_cut_at_threshold(t, m, th, kp) ==
    IF m # "concise" THEN t
    ELSE IF Len(t) < th THEN t
    ELSE LET k == Max(0, Min(kp, Len(t)))
         IN  SubSeq(t, 1, k) \o TruncationSuffix(Len(t), k)

\* a truncate_text whose marker reports the length of the kept prefix as the
\* original length
truncate_text_marks_kept_length(t, m, th, kp) ==
    IF m # "concise" THEN t
    ELSE IF Len(t) <= th THEN t
    ELSE LET k == Max(0, Min(kp, Len(t)))
         IN  SubSeq(t, 1, k) \o TruncationSuffix(k, k)

truncate_text(t, m, th, kp) ==
    IF m # "concise" THEN t
    ELSE IF Len(t) <= th THEN t
    ELSE LET k == Max(0, Min(kp, Len(t)))
         IN  SubSeq(t, 1, k) \o TruncationSuffix(Len(t), k)

(***************************************************************************)
(***************************************************************************)
(* convert_codex_session_to_md.py: iter_jsonl. The file is the sequence of *)
(* its physical lines as the file iterator gives them, each with its       *)
(* newline but possibly the last; the result is the sequence of the pairs  *)
(* yielded.                                                                *)
(***************************************************************************)
\* raw_line.rstrip("\n")
RECURSIVE RStripNewlines(_)
RStripNewlines(s) ==
    IF s # "" /\ Ch(s, Len(s)) = "\n" THEN RStripNewlines(SubSeq(s, 1, Len(s) - 1)) ELSE s

EmptyLineRecord ==
    JObj(<<Item("type", JStr("empty_line")),
           Item("payload", JObj(<<Item("raw_line", JStr(""))>>))>>)

ParseErrorRecord(error, line) ==
    JObj(<<Item("type", JStr("parse_error")),
           Item("payload", JObj(<<Item("error", JStr(error)),
                                  Item("raw_line", JStr(line))>>))>>)

NonObjectLineRecord(obj) ==
    JObj(<<Item("type", JStr("non_object_line")),
           Item("payload", JObj(<<Item("value", obj)>>))>>)

\* the record of a line that is not blank, given r, what json.loads gives
\* for it; or the exception that json.loads raises and the except clause does
\* not name
DecodedRecord(line, r) ==
    CASE r.st = "err" ->
            ParseErrorRecord(JSONDecodeErrorStr(r.msg, line, r.pos), line)
      [] r.st = "raise" -> Thrown(r.exc)
      [] r.st = "ok" ->
            IF ~IsDict(r.val) THEN NonObjectLineRecord(r.val) ELSE r.val

\* what the line stripped of its newline gives
StrippedLineRecord(line) ==
    IF Strip(line) = "" THEN EmptyLineRecord
    ELSE DecodedRecord(line, json_loads(line))

\* what one physical line gives
LineRecord(raw_line) == StrippedLineRecord(RStripNewlines(raw_line))

\* what a consumer of the generator sees: the pairs yielded, and the
\* exception that ended the iteration if one did
Yielded(pairs) == [st |-> "return", pairs |-> pairs]
Aborted(pairs, exc) == [st |-> "raise", pairs |-> pairs, exc |-> exc]

\* the first n of the pairs
FirstPairs(pairs, n) == SubSeq(pairs, 1, n)

\* the generator, given what each line gives: it yields the pairs up to the
\* first line json.loads raises on
Generated(pairs) ==
    IF \A n \in 1..Len(pairs) : ~IsThrown(pairs[n][2]) THEN Yielded(pairs)
    ELSE LET first == CHOOSE n \in 1..Len(pairs) :
                          /\ IsThrown(pairs[n][2])
                          /\ \A o \in 1..(n - 1) : ~IsThrown(pairs[o][2])
         IN  Aborted(FirstPairs(pairs, first - 1), pairs[first][2].exc)

\* what the lines give, numbered from 1
LinePairs(raw_lines) ==
    [line_number \in 1..Len(raw_lines) |->
        <<line_number, LineRecord(raw_lines[line_number])>>]

\* an iter_jsonl that yields nothing for a blank line
iter_jsonl_skips_blank(raw_lines) ==
    Generated(SelectSeq(LinePairs(raw_lines), LAMBDA pair : pair[2] # EmptyLineRecord))

iter_jsonl(raw_lines) == Generated(LinePairs(raw_lines))

(***************************************************************************)
(* convert_codex_session_to_md.py: format_code_block and                   *)
(* render_session_markdown. A TLA+ string cannot hold a backtick, which is *)
(* written ^ here; no text of the model holds a ^ of its own.              *)
(***************************************************************************)
Backtick == "^"
Quoted(s) == Backtick \o s \o Backtick

\* sub in s
Contains(s, sub) ==
    \E i \in 1..(Len(s) - Len(sub) + 1) : SubSeq(s, i, i + Len(sub) - 1) = sub

format_code_block(txt, language) ==
    LET fence == IF Contains(txt, Backtick \o Backtick \o Backtick)
                 THEN "~~~~" ELSE Backtick \o Backtick \o Backtick
    IN  << fence \o language, txt, fence >>

\* f"{idx:04d}"
Pad4(n) == (IF n < 10 THEN "000" ELSE IF n < 100 THEN "00"
            ELSE IF n < 1000 THEN "0" ELSE "") \o DecStr(n)

\* "\n".join(lines)
RECURSIVE JoinLines(_)
JoinLines(lines) ==
    IF lines = <<>> THEN ""
    ELSE IF Len(lines) = 1 THEN lines[1]
    ELSE lines[1] \o "\n" \o JoinLines(Tail(lines))

\* the concatenation of a sequence of sequences
RECURSIVE Flatten(_)
Flatten(seqs) == IF seqs = <<>> THEN <<>> ELSE Head(seqs) \o Flatten(Tail(seqs))

\* the lines before the first section (lines 372-381)
HeaderLines(file, now, m, th, kp, total) ==
    << "# Codex Session Trace: " \o Quoted(file.name),
       "",
       "- source_file: " \o Quoted(file.dir \o "/" \o file.name),
       "- generated_at: " \o Quoted(now),
       "- mode: " \o Quoted(m) >>
    \o (IF m = "concise"
        THEN << "- truncate_threshold: " \o Quoted(DecStr(th)),
                "- truncate_keep: " \o Quoted(DecStr(kp)) >>
        ELSE <<>>)
    \o << "- total_records: " \o Quoted(DecStr(total)), "" >>

\* the lines of the meta pairs with a value (lines 392-396)
MetaLines(meta, m, th, kp) ==
    Flatten([i \in 1..Len(meta) |->
        IF meta[i][2] = "" THEN <<>>
        ELSE << "- " \o meta[i][1] \o ": " \o Quoted(truncate_text(meta[i][2], m, th, kp)) >>])

\* the lines of the blocks (lines 399-406)
BlockLines(blks, m, th, kp) ==
    Flatten([i \in 1..Len(blks) |->
        << "**" \o blks[i].label \o "**", "" >>
        \o format_code_block(truncate_text(blks[i].text, m, th, kp), blks[i].language)
        \o << "" >>])

\* the lines of one record (lines 384-412), given what summarize_record returned
SectionLines(idx, line_number, rec, s, m, th, kp) ==
    LET top_timestamp == to_text(DictGet(rec, "timestamp"))
    IN  << "## " \o Pad4(idx) \o ". " \o Quoted(s.title),
           "",
           "- jsonl_line: " \o Quoted(DecStr(line_number)) >>
        \o Opt(top_timestamp # "", "- timestamp: " \o Quoted(top_timestamp))
        \o MetaLines(s.meta, m, th, kp)
        \o << "" >>
        \o BlockLines(s.blocks, m, th, kp)
        \o (IF m = "full"
            THEN << "**raw_record_json**", "" >>
                    \o format_code_block(to_pretty_json(rec), "json") \o << "" >>
            ELSE <<>>)

\* the document: its header, the lines of each section, and the text returned
Document(header, sections) ==
    [st |-> "return", header |-> header, sections |-> sections,
     text |-> JoinLines(header \o Flatten(sections))]

\* what summarize_record gives for each of the pairs
Summaries(recs) == [i \in 1..Len(recs) |-> summarize_record(recs[i][2])]

\* the loop of lines 383-412 that numbers the sections from first, given what
\* summarize_record gives for each record: the exception of the first record
\* it raises on leaves the function, and no document is returned
Rendered(file, now, m, th, kp, recs, sums, first) ==
    IF \E i \in 1..Len(recs) : sums[i].st = "raise"
    THEN Raise(sums[CHOOSE i \in 1..Len(recs) :
                        /\ sums[i].st = "raise"
                        /\ \A j \in 1..(i - 1) : sums[j].st # "raise"].exc)
    ELSE Document(HeaderLines(file, now, m, th, kp, Len(recs)),
                  [i \in 1..Len(recs) |->
                      SectionLines(first + i - 1, recs[i][1], recs[i][2], sums[i],
                                   m, th, kp)])

\* list(iter_jsonl(session_file)), then the loop: an exception of iter_jsonl
\* leaves the function
RenderedRecords(file, now, m, th, kp, records, first) ==
    IF records.st = "raise" THEN Raise(records.exc)
    ELSE Rendered(file, now, m, th, kp, records.pairs, Summaries(records.pairs), first)

\* a render_session_markdown that numbers the sections from 0
render_session_markdown_from_zero(file, raw_lines, now, m, th, kp) ==
    RenderedRecords(file, now, m, th, kp, iter_jsonl(raw_lines), 0)

render_session_markdown(file, raw_lines, now, m, th, kp) ==
    RenderedRecords(file, now, m, th, kp, iter_jsonl(raw_lines), 1)

(***************************************************************************)
(* query_codex_sessions.py: normalize_path. The paths of the model start   *)
(* with at most one slash and name no other user's home; no component of   *)
(* them is a symbolic link, so that resolve() works on the text alone.     *)
(***************************************************************************)
\* the home directory and the working directory of the process
Home == "/home/u"
ProcessCwd == "/home/u/work"

StartsWith(s, prefix) == Len(s) >= Len(prefix) /\ SubSeq(s, 1, Len(prefix)) = prefix
EndsWith(s, suffix) ==
    Len(s) >= Len(suffix) /\ SubSeq(s, Len(s) - Len(suffix) + 1, Len(s)) = suffix

\* s.split("/"), from index i (0-based) with the segment acc begun
RECURSIVE SplitFrom(_, _, _)
SplitFrom(s, i, acc) ==
    IF i >= Len(s) THEN << acc >>
    ELSE IF At(s, i) = "/" THEN << acc >> \o SplitFrom(s, i + 1, "")
    ELSE SplitFrom(s, i + 1, acc \o At(s, i))

\* the components of a path: Path() drops the empty ones and the dots
Components(path_str) ==
    SelectSeq(SplitFrom(path_str, 0, ""), LAMBDA c : c # "" /\ c # ".")

\* Path.expanduser()
expanduser(path_str) ==
    IF path_str = "~" THEN Home
    ELSE IF StartsWith(path_str, "~/") THEN Home \o SubSeq(path_str, 2, Len(path_str))
    ELSE path_str

\* resolve(): a ".." leaves the directory before it, and the root stays
RECURSIVE ResolveDots(_, _)
ResolveDots(components, done) ==
    IF components = <<>> THEN done
    ELSE IF Head(components) = ".."
    THEN ResolveDots(Tail(components),
                     IF done = <<>> THEN <<>> ELSE SubSeq(done, 1, Len(done) - 1))
    ELSE ResolveDots(Tail(components), Append(done, Head(components)))

\* str() of an absolute path of these components
RECURSIVE JoinComponents(_)
JoinComponents(components) ==
    IF components = <<>> THEN ""
    ELSE "/" \o Head(components) \o JoinComponents(Tail(components))

AbsolutePath(components) == IF components = <<>> THEN "/" ELSE JoinComponents(components)

\* resolve(strict=False) of an expanded path: a relative one is taken from
\* the working directory
Resolved(expanded) ==
    AbsolutePath(ResolveDots(
        (IF StartsWith(expanded, "/") THEN <<>> ELSE Components(ProcessCwd))
            \o Components(expanded), <<>>))

normalize_path(path_str) == Resolved(expanduser(path_str))

(***************************************************************************)
(* query_codex_sessions.py: dates, parse_iso_datetime, date_range. A date  *)
(* is [year, month, day]. datetime.fromisoformat is modelled on the texts  *)
(* YYYY-MM-DD and YYYY-MM-DD?hh:mm:ss[.fff[fff]][+hh:mm], the offset of    *)
(* fewer than 60 minutes, and on the texts that do not start with four     *)
(* digits, which it refuses; the others are unsupported.                   *)
(***************************************************************************)
Date(y, m, d) == [year |-> y, month |-> m, day |-> d]
NoDate == Date(0, 0, 0)

IsLeap(y) == (y % 4 = 0 /\ y % 100 # 0) \/ y % 400 = 0

DaysInMonth(y, m) ==
    IF m = 2 THEN (IF IsLeap(y) THEN 29 ELSE 28)
    ELSE IF m \in {4, 6, 9, 11} THEN 30
    ELSE 31

\* a <= b on dates
DateLeq(a, b) ==
    \/ a.year < b.year
    \/ a.year = b.year /\ a.month < b.month
    \/ a.year = b.year /\ a.month = b.month /\ a.day <= b.day

\* current + timedelta(days=1)
NextDay(d) ==
    IF d.day < DaysInMonth(d.year, d.month) THEN Date(d.year, d.month, d.day + 1)
    ELSE IF d.month < 12 THEN Date(d.year, d.month + 1, 1)
    ELSE Date(d.year + 1, 1, 1)

RECURSIVE date_range(_, _)
date_range(start, end) ==
    IF ~DateLeq(start, end) THEN <<>>
    ELSE << start >> \o date_range(NextDay(start), end)

\* the characters s[i:j] are digits, all j - i of them
AllDigits(s, i, j) == \A k \in i..(j - 1) : IsDigit(At(s, k))

\* the index after hh:mm:ss[.fff[fff]] at i, -1 when the text has no such shape
TimeEnd(s, i) ==
    IF ~(/\ AllDigits(s, i, i + 2) /\ At(s, i + 2) = ":"
         /\ AllDigits(s, i + 3, i + 5) /\ At(s, i + 5) = ":"
         /\ AllDigits(s, i + 6, i + 8))
    THEN 0 - 1
    ELSE IF At(s, i + 8) # "." THEN i + 8
    ELSE IF AllDigits(s, i + 9, i + 15) THEN i + 15
    ELSE IF AllDigits(s, i + 9, i + 12) THEN i + 12
    ELSE 0 - 1

\* the text from i is empty or an offset +hh:mm or -hh:mm of fewer than 60
\* minutes
IsOffsetOrEnd(s, i) ==
    \/ i = Len(s)
    \/ /\ At(s, i) \in {"+", "-"}
       /\ AllDigits(s, i + 1, i + 3) /\ At(s, i + 3) = ":"
       /\ At(s, i + 4) \in {"0", "1", "2", "3", "4", "5"} /\ IsDigit(At(s, i + 5))
       /\ Len(s) = i + 6

ParsedDate(d) == [st |-> "ok", date |-> d]

\* the fields of a text of the modelled shape are in range: the date() of
\* the datetime, else ValueError
CheckedDate(s, timed, te) ==
    LET y == DigitsVal(s, 0, 4)
        m == DigitsVal(s, 5, 7)
        d == DigitsVal(s, 8, 10)
        offset == timed /\ te < Len(s)
    IN  IF /\ y >= 1 /\ m \in 1..12 /\ d >= 1 /\ d <= DaysInMonth(y, m)
           /\ timed => /\ DigitsVal(s, 11, 13) < 24
                       /\ DigitsVal(s, 14, 16) < 60
                       /\ DigitsVal(s, 17, 19) < 60
           /\ offset => DigitsVal(s, te + 1, te + 3) < 24
        THEN ParsedDate(Date(y, m, d))
        ELSE Raised("ValueError")

\* datetime.fromisoformat(s).date()
fromisoformat(s) ==
    IF ~AllDigits(s, 0, 4) THEN Raised("ValueError")
    ELSE IF ~(At(s, 4) = "-" /\ AllDigits(s, 5, 7) /\ At(s, 7) = "-"
              /\ AllDigits(s, 8, 10))
    THEN Unsupported
    ELSE IF Len(s) = 10 THEN CheckedDate(s, FALSE, 10)
    ELSE IF TimeEnd(s, 11) < 0 \/ ~IsOffsetOrEnd(s, TimeEnd(s, 11)) THEN Unsupported
    ELSE CheckedDate(s, TRUE, TimeEnd(s, 11))

\* parse_iso_datetime(value).date(), or the ValueError it raises
parse_iso_datetime(value) ==
    IF EndsWith(value, "Z")
    THEN fromisoformat(SubSeq(value, 1, Len(value) - 1) \o "+00:00")
    ELSE fromisoformat(value)

(***************************************************************************)
(* query_codex_sessions.py: first_line_json, matches_session and           *)
(* find_sessions. A file is [dir, name, kind, first_line]: it cannot be    *)
(* opened (kind "unreadable"), holds bytes that are no UTF-8               *)
(* ("invalid_utf8"), or starts with the line first_line ("text").          *)
(***************************************************************************)
\* the try statement of first_line_json, given r, what json.loads gives
FirstLineValue(r) ==
    CASE r.st = "ok" -> r.val
      [] r.st = "err" -> JNull
      [] r.st = "raise" -> Thrown(r.exc)

\* the value of the first line, None (JNull), or the exception that the
\* except clause does not name
first_line_json(file) ==
    CASE file.kind = "unreadable" -> JNull
      [] file.kind = "invalid_utf8" -> Thrown("UnicodeDecodeError")
      [] file.kind = "text" ->
            IF Strip(file.first_line) = "" THEN JNull
            ELSE FirstLineValue(json_loads(Strip(file.first_line)))

Matched(val) == [st |-> "return", val |-> val]

\* lines 121-128, given parsed, what parse_iso_datetime gives
DateWithin(parsed, start, end) ==
    CASE parsed.st = "raise" -> FALSE
      [] parsed.st = "ok" -> DateLeq(start, parsed.date) /\ DateLeq(parsed.date, end)

\* payload.get raises AttributeError on a payload that is no dict
matches_session(meta, workspace_dir, start, end) ==
    LET payload == DictGetOr(meta, "payload", JObj(<<>>))
        cwd == DictGet(payload, "cwd")
        top == DictGet(meta, "timestamp")
        timestamp == IF IsStr(top) THEN top ELSE DictGet(payload, "timestamp")
    IN  IF ~IsDict(payload) THEN Raise("AttributeError")
        ELSE IF ~IsStr(cwd) THEN Matched(FALSE)
        ELSE IF normalize_path(cwd.vs) # workspace_dir THEN Matched(FALSE)
        ELSE IF ~IsStr(timestamp) THEN Matched(FALSE)
        ELSE Matched(DateWithin(parse_iso_datetime(timestamp.vs), start, end))

\* f"{n:02d}"
Pad2(n) == (IF n < 10 THEN "0" ELSE "") \o DecStr(n)

\* the day directory of a date, under the sessions root
DayDir(d) == Pad4(d.year) \o "/" \o Pad2(d.month) \o "/" \o Pad2(d.day)

\* str(jsonl_file)
FilePath(root, file) == root \o "/" \o file.dir \o "/" \o file.name

\* the order of the characters of the paths of the model
CharOrder == "-./0123456789_abcdefghijklmnopqrstuvwxyz"
CharRank(ch) == CHOOSE i \in 1..Len(CharOrder) : Ch(CharOrder, i) = ch

\* a < b on str, from the character i on
RECURSIVE StrLessFrom(_, _, _)
StrLessFrom(a, b, i) ==
    IF i > Len(b) THEN FALSE
    ELSE IF i > Len(a) THEN TRUE
    ELSE IF Ch(a, i) = Ch(b, i) THEN StrLessFrom(a, b, i + 1)
    ELSE CharRank(Ch(a, i)) < CharRank(Ch(b, i))

StrLess(a, b) == StrLessFrom(a, b, 1)

\* sorted(): the files of one directory, by name
RECURSIVE SortedByName(_)
SortedByName(files) ==
    IF files = {} THEN <<>>
    ELSE LET first == CHOOSE f \in files :
                          \A g \in files : g = f \/ StrLess(f.name, g.name)
         IN  << first >> \o SortedByName(files \ {first})

\* sorted(day_dir.glob("*.jsonl")), nothing when day_dir is no directory
DayCandidates(dirs, files, d) ==
    IF DayDir(d) \notin dirs THEN <<>>
    ELSE SortedByName({ f \in files : f.dir = DayDir(d) /\ EndsWith(f.name, ".jsonl") })

\* the files in the order the loops visit them
Candidates(dirs, files, days) ==
    Flatten([i \in 1..Len(days) |-> DayCandidates(dirs, files, days[i])])

\* lines 143-147, given meta, what first_line_json gives for the file
MetaOutcome(meta, workspace_dir, start, end) ==
    IF IsThrown(meta) THEN Raise(meta.exc)
    ELSE IF ~IsDict(meta) THEN Matched(FALSE)
    ELSE matches_session(meta, workspace_dir, start, end)

ReturnPaths(paths) == [st |-> "return", paths |-> paths]

\* the loops, given the outcome of each file: the first exception leaves
\* find_sessions, else the paths of the files that match are returned
Collected(root, candidates, outcomes) ==
    IF \E i \in 1..Len(candidates) : outcomes[i].st = "raise"
    THEN Raise(outcomes[CHOOSE i \in 1..Len(candidates) :
                            /\ outcomes[i].st = "raise"
                            /\ \A j \in 1..(i - 1) : outcomes[j].st # "raise"].exc)
    ELSE ReturnPaths(
            LET kept == SelectSeq([i \in 1..Len(candidates) |-> i],
                                  LAMBDA i : outcomes[i].val)
            IN  [k \in 1..Len(kept) |-> FilePath(root, candidates[kept[k]])])

FindAmong(root, candidates, normalized_workspace, start, end) ==
    Collected(root, candidates,
              [i \in 1..Len(candidates) |->
                  MetaOutcome(first_line_json(candidates[i]),
                              normalized_workspace, start, end)])

find_sessions(root, dirs, files, workspace_dir, start, end) ==
    FindAmong(root, Candidates(dirs, files, date_range(start, end)),
              normalize_path(workspace_dir), start, end)

(***************************************************************************)
(* convert_codex_session_to_md.py: normalize_input_files, safe_output_path *)
(* and main. The file system is a function from the paths that exist to    *)
(* what is there: a directory, a session log with its physical lines, or a *)
(* file with a text. The paths of the model are absolute, in lower case,   *)
(* and no component of them is a symbolic link.                            *)
(***************************************************************************)
Directory == [kind |-> "dir", lines |-> <<>>, text |-> ""]
LogFile(raw_lines) == [kind |-> "file", lines |-> raw_lines, text |-> ""]
TextFileOf(txt) == [kind |-> "file", lines |-> <<>>, text |-> txt]

\* Path.exists(), Path.is_file()
Exists(fs, path) == path \in DOMAIN fs
IsFile(fs, path) == Exists(fs, path) /\ fs[path].kind = "file"

\* the index of the last ch of s, 0 when s holds none
LastIndex(s, ch) ==
    IF \A i \in 1..Len(s) : Ch(s, i) # ch THEN 0
    ELSE CHOOSE i \in 1..Len(s) :
            Ch(s, i) = ch /\ \A j \in (i + 1)..Len(s) : Ch(s, j) # ch

\* Path.parent and Path.name of an absolute path
ParentOf(path) ==
    IF LastIndex(path, "/") <= 1 THEN "/" ELSE SubSeq(path, 1, LastIndex(path, "/") - 1)
NameOf(path) == SubSeq(path, LastIndex(path, "/") + 1, Len(path))

\* Path.suffix and Path.stem: a dot that starts the name starts no suffix
SuffixOf(path) ==
    IF LastIndex(NameOf(path), ".") <= 1 THEN ""
    ELSE SubSeq(NameOf(path), LastIndex(NameOf(path), "."), Len(NameOf(path)))
StemOf(path) ==
    SubSeq(NameOf(path), 1, Len(NameOf(path)) - Len(SuffixOf(path)))

\* sorted() of paths
RECURSIVE SortedPaths(_)
SortedPaths(paths) ==
    IF paths = {} THEN <<>>
    ELSE LET first == CHOOSE q \in paths : \A r \in paths : r = q \/ StrLess(q, r)
         IN  << first >> \o SortedPaths(paths \ {first})

\* the files one item of the inputs adds (lines 328-337), or the
\* FileNotFoundError for an item that does not exist
ItemFiles(fs, item) ==
    IF ~Exists(fs, item) THEN Raise("FileNotFoundError")
    ELSE IF IsFile(fs, item)
    THEN [st |-> "return", files |-> IF SuffixOf(item) = ".jsonl" THEN << item >> ELSE <<>>]
    ELSE [st |-> "return",
          files |-> SortedPaths({ q \in DOMAIN fs :
                                    /\ ParentOf(q) = item
                                    /\ q # item
                                    /\ EndsWith(NameOf(q), ".jsonl")
                                    /\ IsFile(fs, q) })]

\* lines 338-345: the first of the equal paths stays
Unique(files) ==
    LET firsts == SelectSeq([i \in 1..Len(files) |-> i],
                            LAMBDA i : \A j \in 1..(i - 1) : files[j] # files[i])
    IN  [k \in 1..Len(firsts) |-> files[firsts[k]]]

\* normalize_input_files, given what each item adds
NormalizedFrom(found) ==
    IF \E i \in 1..Len(found) : found[i].st = "raise"
    THEN Raise("FileNotFoundError")
    ELSE [st |-> "return",
          files |-> Unique(Flatten([i \in 1..Len(found) |-> found[i].files]))]

normalize_input_files(fs, inputs) ==
    NormalizedFrom([i \in 1..Len(inputs) |-> ItemFiles(fs, inputs[i])])

\* output_dir / name
Under(output_dir, name) == output_dir \o "/" \o name

\* the candidate of lines 355-359 with the least idx >= from that does not exist
RECURSIVE FirstFreeCandidate(_, _, _, _, _)
FirstFreeCandidate(fs, output_dir, stem, m, idx) ==
    IF ~Exists(fs, Under(output_dir, stem \o "." \o m \o "." \o DecStr(idx) \o ".md"))
    THEN Under(output_dir, stem \o "." \o m \o "." \o DecStr(idx) \o ".md")
    ELSE FirstFreeCandidate(fs, output_dir, stem, m, idx + 1)

safe_output_path(fs, output_dir, session_path, m) ==
    IF ~Exists(fs, Under(output_dir, StemOf(session_path) \o "." \o m \o ".md"))
    THEN Under(output_dir, StemOf(session_path) \o "." \o m \o ".md")
    ELSE FirstFreeCandidate(fs, output_dir, StemOf(session_path), m, 2)

\* Path.mkdir(parents=True, exist_ok=True) of a directory under the root
MadeDir(fs, dir) ==
    IF Exists(fs, dir) THEN fs
    ELSE [q \in DOMAIN fs \cup {dir} |-> IF q = dir THEN Directory ELSE fs[q]]

\* Path.write_text(markdown): the file is made, or its text replaced
Written(fs, path, txt) ==
    [q \in DOMAIN fs \cup {path} |-> IF q = path THEN TextFileOf(txt) ELSE fs[q]]

\* the session file of a path, as render_session_markdown names it
SessionFileOf(path) == [dir |-> ParentOf(path), name |-> NameOf(path)]

\* the checks of lines 419-424
PolicyAccepted(a) ==
    /\ a.truncate_threshold >= 1
    /\ a.truncate_keep >= 1
    /\ a.truncate_keep <= a.truncate_threshold

(***************************************************************************)
(* The values of the variables a specification does not use.               *)
(***************************************************************************)
NoResult == [st |-> "none"]

TruncateIdle ==
    /\ text = ""
    /\ mode = "full"
    /\ threshold = 1
    /\ keep = 1
    /\ out1 = ""
    /\ out2 = ""
    /\ calls = 0

ClassifyIdle ==
    /\ arg_record = JObj(<<>>)
    /\ ret_summary = NoResult

ExtractIdle ==
    /\ arg_content = JNull
    /\ ret_blocks = <<>>

NoFile == [dir |-> "", name |-> ""]

ConvertIdle ==
    /\ session_file = NoFile
    /\ arg_lines = <<>>
    /\ ret_records = NoResult
    /\ ret_doc = NoResult

LocatorIdle ==
    /\ sessions_root = ""
    /\ fs_dirs = {}
    /\ fs_files = {}
    /\ arg_workspace = ""
    /\ arg_start = NoDate
    /\ arg_end = NoDate
    /\ ret_paths = NoResult

FenceIdle ==
    /\ arg_text = ""
    /\ arg_language = ""
    /\ ret_fenced = NoResult

NoArgs ==
    [inputs |-> <<>>, mode |-> "", truncate_threshold |-> 0, truncate_keep |-> 0,
     output_dir |-> "", output_file |-> ""]

MainIdle ==
    /\ args = NoArgs
    /\ input_files = <<>>
    /\ disk = <<>>
    /\ handled = 0
    /\ markdown = NoResult
    /\ generated = <<>>

(***************************************************************************)
(* Specification of truncation: a text and a policy main() accepts         *)
(* (threshold >= 1, keep >= 1, keep <= threshold), rendered once, and the  *)
(* rendering rendered again.                                               *)
(***************************************************************************)
InitTruncate ==
    /\ text \in Texts
    /\ mode \in {"concise", "full"}
    /\ threshold \in 1..MaxThreshold
    /\ keep \in 1..threshold
    /\ out1 = ""
    /\ out2 = ""
    /\ calls = 0
    /\ ClassifyIdle
    /\ ExtractIdle
    /\ ConvertIdle
    /\ LocatorIdle
    /\ FenceIdle
    /\ MainIdle
    /\ pc = "truncate"

Truncate ==
    /\ calls = 0
    /\ out1' = truncate_text(text, mode, threshold, keep)
    /\ calls' = 1
    /\ UNCHANGED <<text, mode, threshold, keep, out2, svars, evars, cvars, lvars, fvars, mvars, pc>>

Retruncate ==
    /\ calls = 1
    /\ out2' = truncate_text(out1, mode, threshold, keep)
    /\ calls' = 2
    /\ UNCHANGED <<text, mode, threshold, keep, out1, svars, evars, cvars, lvars, fvars, mvars, pc>>

NextTruncate == Truncate \/ Retruncate

SpecTruncate == InitTruncate /\ [][NextTruncate]_vars

(***************************************************************************)
(* Claims on truncate_text.                                                *)
(***************************************************************************)
\* whether the policy leaves a text of this length as it is
FitsThreshold(length) == mode = "full" \/ length <= threshold

\* C1 as stated: truncation is idempotent, for every text and every valid
\* policy: truncating the truncated text gives the truncated text.
C1_TruncationIdempotent == calls = 2 => out2 = out1

\* C1 amended: truncating twice gives the result of truncating once exactly
\* when the first result fits the threshold (full mode, a text no longer than
\* the threshold, or a longer text with keep plus the length of the marker at
\* most the threshold) or is as long as the text itself. Otherwise the second
\* call cuts the first result to its first keep characters again and appends
\* a marker that states the length of the first result as the original length.
C1_IdempotentIffResultFits ==
    calls = 2 =>
        LET marker == TruncationSuffix(Len(text), keep)
            fits == \/ FitsThreshold(Len(text))
                    \/ keep + Len(marker) <= threshold
                    \/ keep + Len(marker) = Len(text)
        IN  /\ fits => out2 = out1
            /\ ~fits => /\ out2 # out1
                        /\ out2 = SubSeq(text, 1, keep)
                                    \o TruncationSuffix(keep + Len(marker), keep)

\* a text longer than the threshold was cut, and cutting the result again
\* changed nothing
C1_Witness ==
    /\ calls = 2
    /\ mode = "concise"
    /\ Len(text) > threshold
    /\ out1 # text
    /\ out2 = out1

\* C2: truncate_text returns the text unchanged in full mode and, in concise
\* mode, when it is no longer than the threshold; a longer text becomes its
\* first keep characters followed by the marker, which states the length of
\* the text and keep, so the result is keep + length(marker) long. With
\* keep=5, threshold=10 a text of 20 characters becomes its first 5
\* characters and "[TRUNCATED: original_length=20, shown=5]".
C2_TruncateResult ==
    calls >= 1 =>
        /\ FitsThreshold(Len(text)) => out1 = text
        /\ ~FitsThreshold(Len(text)) =>
              LET marker == "\n\n[TRUNCATED: original_length=" \o DecStr(Len(text))
                                \o ", shown=" \o DecStr(keep) \o "]"
              IN  /\ SubSeq(out1, 1, keep) = SubSeq(text, 1, keep)
                  /\ SubSeq(out1, keep + 1, Len(out1)) = marker
                  /\ Len(out1) = keep + Len(marker)
        /\ (mode = "concise" /\ threshold = 10 /\ keep = 5 /\ Len(text) = 20) =>
              out1 = "abcde\n\n[TRUNCATED: original_length=20, shown=5]"

\* the scenario of the specification: keep=5, threshold=10, 20 characters
C2_Witness ==
    /\ calls >= 1
    /\ mode = "concise"
    /\ threshold = 10
    /\ keep = 5
    /\ Len(text) = 20
    /\ out1 = "abcde\n\n[TRUNCATED: original_length=20, shown=5]"

(***************************************************************************)
(* The records given to summarize_record: every kind of line of a session  *)
(* log, each field the code reads absent or holding a value of every JSON  *)
(* kind.                                                                   *)
(***************************************************************************)
\* a field left out of an object under construction
Absent == [k |-> "absent"]
Dict(items) == JObj(SelectSeq(items, LAMBDA it : it.val # Absent))

\* one value of every JSON kind, empty and not
AnyValues ==
    { JNull, JBool(TRUE), JBool(FALSE), JNum(0), JNum(5), JStr(""), JStr("hi"),
      JList(<<>>), JList(<<JStr("a"), JStr("b")>>), JObj(<<>>),
      JObj(<<Item("type", JStr("search")), Item("query", JStr("q"))>>) }
AnyField == AnyValues \cup {Absent}

\* n copies of s
RECURSIVE Repeat(_, _)
Repeat(s, n) ==
    IF n = 0 THEN ""
    ELSE IF n % 2 = 0 THEN LET half == Repeat(s, n \div 2) IN half \o half
    ELSE s \o Repeat(s, n - 1)

\* an int of one digit more than int() converts, and a JSON array of it
OverlongInt == Repeat("9", MaxStrDigits + 1)
OverlongIntArray == "[" \o OverlongInt \o "]"

\* texts that may hold embedded JSON
ArgumentValues ==
    { Absent, JNull, JNum(5), JStr(""), JStr("ls -la"), JStr("{\"cmd\": \"ls\"}"),
      JStr(" [1, 2] "), JStr("{broken"), JObj(<<Item("cmd", JStr("ls"))>>),
      JStr(OverlongIntArray) }

\* the items of a content list
ContentItems ==
    { JStr("plain"), JNull, JNum(7), JList(<<JNum(1)>>),
      JObj(<<>>),
      JObj(<<Item("type", JStr("input_text")), Item("text", JStr("hello"))>>),
      JObj(<<Item("type", JStr("output_text"))>>),
      JObj(<<Item("text", JStr("no type"))>>),
      JObj(<<Item("type", JNull), Item("text", JNull)>>),
      JObj(<<Item("type", JNum(5)), Item("text", JObj(<<Item("a", JNum(1))>>))>>) }

\* the lists of at most n items
RECURSIVE ListsUpTo(_, _)
ListsUpTo(S, n) ==
    IF n = 0 THEN { <<>> }
    ELSE LET shorter == ListsUpTo(S, n - 1)
         IN  shorter \cup { Append(l, x) : l \in { l \in shorter : Len(l) = n - 1 }, x \in S }

Contents ==
    { JList(l) : l \in ListsUpTo(ContentItems, MaxItems) }
        \cup { JNull, JStr("text"), JObj(<<>>) }

\* the content and summary lists inside a record
RecordContents ==
    { Absent, JNull, JStr("text"), JList(<<>>),
      JList(<<JObj(<<Item("type", JStr("input_text")), Item("text", JStr("hello"))>>),
              JStr("plain")>>) }

SessionMetaPayloads ==
    { Dict(<<Item("id", id), Item("cwd", cwd), Item("originator", JStr("codex_cli")),
             Item("cli_version", ver), Item("base_instructions", base), Item("git", git)>>) :
        id \in {Absent, JStr("s1"), JNum(5)},
        cwd \in {Absent, JStr("/work/app")},
        ver \in {Absent, JNull},
        base \in {Absent, JNull, JStr("be brief"), JObj(<<>>),
                  JObj(<<Item("text", JStr("be brief"))>>),
                  JObj(<<Item("text", JStr(""))>>), JObj(<<Item("text", JNum(5))>>)},
        git \in {Absent, JNull, JStr("main"), JObj(<<Item("branch", JStr("main"))>>)} }

TurnContextPayloads ==
    { Dict(<<Item("turn_id", JStr("t1")), Item("summary", sm), Item("sandbox_policy", sp),
             Item("collaboration_mode", cm), Item("user_instructions", ui),
             Item("developer_instructions", di)>>) :
        sm \in {Absent, JStr("auto"), JObj(<<Item("a", JNum(1))>>)},
        sp \in {Absent, JNull, JObj(<<Item("mode", JStr("read-only"))>>)},
        cm \in {Absent, JStr("default")},
        ui \in {Absent, JNull, JStr(""), JStr("be kind")},
        di \in {Absent, JStr("dev"), JList(<<>>)} }

EventMsgPayloads ==
    { Dict(<<Item("type", JStr("user_message")), Item("message", msg),
             Item("images", im), Item("local_images", li)>>) :
        msg \in {Absent, JStr("hi")},
        im \in AnyField,
        li \in {Absent, JList(<<JStr("p")>>), JStr("xy"), JNum(3)} }
    \cup
    { Dict(<<Item("type", JStr(t)), Item("message", v), Item("text", v)>>) :
        t \in {"agent_message", "agent_reasoning"}, v \in AnyField }
    \cup
    { Dict(<<Item("type", JStr("token_count")), Item("info", info), Item("rate_limits", rl)>>) :
        info \in {Absent, JNull, JObj(<<Item("total", JNum(5))>>)},
        rl \in {Absent, JNull, JNum(0)} }
    \cup
    { Dict(<<Item("type", t), Item("message", JStr("hi")), Item("images", JNum(5))>>) :
        t \in {Absent, JNull, JNum(5), JStr("task_started"), JStr("")} }

ResponseItemPayloads ==
    { Dict(<<Item("type", JStr("message")), Item("role", role), Item("phase", phase),
             Item("content", c)>>) :
        role \in {Absent, JNull, JStr("user"), JStr("assistant"), JNum(5)},
        phase \in {Absent, JStr(""), JStr("final")},
        c \in RecordContents }
    \cup
    { Dict(<<Item("type", JStr("reasoning")), Item("summary", sm), Item("content", c),
             Item("encrypted_content", enc)>>) :
        sm \in RecordContents \cup {JObj(<<Item("a", JNum(1))>>)},
        c \in RecordContents,
        enc \in {Absent, JStr("gAAAA")} }
    \cup
    { Dict(<<Item("type", JStr(t)), Item("name", name), Item("call_id", id),
             Item("status", status), Item("arguments", a), Item("input", a)>>) :
        t \in {"function_call", "custom_tool_call"},
        name \in {Absent, JNull, JStr("shell")},
        id \in {Absent, JStr("call_1")},
        status \in {Absent, JStr(""), JStr("completed")},
        a \in ArgumentValues }
    \cup
    { Dict(<<Item("type", JStr(t)), Item("call_id", id), Item("output", o)>>) :
        t \in {"function_call_output", "custom_tool_call_output"},
        id \in {Absent, JStr("call_1"), JNum(5)},
        o \in ArgumentValues }
    \cup
    { Dict(<<Item("type", JStr("web_search_call")), Item("status", status),
             Item("action", action)>>) :
        status \in {Absent, JStr("completed")},
        action \in AnyField \cup { JObj(<<Item("type", JNull)>>),
                                   JObj(<<Item("type", JStr(""))>>),
                                   JObj(<<Item("type", JNum(5))>>) } }
    \cup
    { Dict(<<Item("type", t), Item("content", JList(<<JStr("x")>>))>>) :
        t \in {Absent, JNull, JNum(5), JStr("ghost_snapshot"), JStr("")} }

\* the types of a record that names none of the four known kinds
OtherTypes ==
    { Absent, JNull, JNum(5), JStr(""), JStr("compacted"), JStr("parse_error"),
      JList(<<JStr("event_msg")>>) }
KnownTypes == {"session_meta", "turn_context", "event_msg", "response_item"}

Records ==
    { Dict(<<Item("timestamp", ts), Item("type", JStr("session_meta")), Item("payload", p)>>) :
        ts \in {Absent, JStr("2026-02-04T08:25:09.350Z")}, p \in SessionMetaPayloads }
    \cup
    { Dict(<<Item("type", JStr("turn_context")), Item("payload", p)>>) :
        p \in TurnContextPayloads }
    \cup
    { Dict(<<Item("type", JStr("event_msg")), Item("payload", p)>>) :
        p \in EventMsgPayloads }
    \cup
    { Dict(<<Item("type", JStr("response_item")), Item("payload", p)>>) :
        p \in ResponseItemPayloads }
    \cup
    { Dict(<<Item("type", t), Item("payload", p)>>) :
        t \in OtherTypes,
        p \in AnyField \cup { JObj(<<Item("type", JStr("user_message")),
                                      Item("images", JNum(5))>>) } }
    \cup
    { Dict(<<Item("type", JStr(t)), Item("payload", p)>>) :
        t \in KnownTypes, p \in AnyField }

(***************************************************************************)
(* Specification of classification: summarize_record called on a record.   *)
(***************************************************************************)
InitClassify ==
    /\ arg_record \in Records
    /\ ret_summary = NoResult
    /\ TruncateIdle
    /\ ExtractIdle
    /\ ConvertIdle
    /\ LocatorIdle
    /\ FenceIdle
    /\ MainIdle
    /\ pc = "call"

SummarizeRecord ==
    /\ pc = "call"
    /\ ret_summary' = summarize_record(arg_record)
    /\ pc' = "done"
    /\ UNCHANGED <<arg_record, tvars, evars, cvars, lvars, fvars, mvars>>

NextClassify == SummarizeRecord

SpecClassify == InitClassify /\ [][NextClassify]_vars

(***************************************************************************)
(* Specification of content-block extraction: extract_message_blocks       *)
(* called on a content value.                                              *)
(***************************************************************************)
InitExtract ==
    /\ arg_content \in Contents
    /\ ret_blocks = <<>>
    /\ TruncateIdle
    /\ ClassifyIdle
    /\ ConvertIdle
    /\ LocatorIdle
    /\ FenceIdle
    /\ MainIdle
    /\ pc = "call"

ExtractMessageBlocks ==
    /\ pc = "call"
    /\ ret_blocks' = extract_message_blocks(arg_content)
    /\ pc' = "done"
    /\ UNCHANGED <<arg_content, tvars, svars, cvars, lvars, fvars, mvars>>

NextExtract == ExtractMessageBlocks

SpecExtract == InitExtract /\ [][NextExtract]_vars

(***************************************************************************)
(* Claims on summarize_record.                                             *)
(***************************************************************************)
\* the discriminators of the record under classification, as text
TypeText(rec) == to_text(DictGetOr(rec, "type", JStr("unknown")))
PayloadOf(rec) == DictGet(rec, "payload")
SubtypeText(rec) == to_text(DictGetOr(PayloadOf(rec), "type", JStr("unknown")))
\* a field of the payload, as text
FieldText(rec, key) == to_text(DictGet(PayloadOf(rec), key))

\* a record of one of the four kinds of section 4.2, with an object payload
IsKnownKind(rec) == TypeText(rec) \in KnownTypes /\ IsDict(PayloadOf(rec))

EventSubtypes == {"user_message", "agent_message", "agent_reasoning", "token_count"}
ItemSubtypes ==
    {"message", "reasoning", "function_call", "custom_tool_call",
     "function_call_output", "custom_tool_call_output", "web_search_call"}

\* the keys of a meta list, without the pairs that restate the discriminators
\* (line_type first in every list, then event_type or item_type)
KindKeys(meta) ==
    { meta[i][1] : i \in 1..Len(meta) } \ {"line_type", "event_type", "item_type"}

\* the title and the meta keys the claim gives for a record of a known kind
KnownPairResult(rec, title, keys) ==
    LET type == TypeText(rec)
        sub == SubtypeText(rec)
        p == PayloadOf(rec)
    IN  CASE type = "session_meta" ->
                /\ title = "session_meta"
                /\ keys = {"session_id", "cwd", "originator", "source", "cli_version",
                           "model_provider"}
          [] type = "turn_context" ->
                keys = {"turn_id", "cwd", "model", "approval_policy", "effort", "summary"}
          [] type = "event_msg" ->
                /\ title = "event_msg." \o sub
                /\ keys = IF sub = "user_message"
                          THEN {"images_count", "local_images_count"} ELSE {}
          [] type = "response_item" /\ sub = "message" ->
                /\ title = "response_item.message."
                              \o to_text(DictGetOr(p, "role", JStr("unknown")))
                /\ keys = {"role"} \cup (IF FieldText(rec, "phase") # "" THEN {"phase"} ELSE {})
          [] type = "response_item" /\ sub \in {"function_call", "custom_tool_call"} ->
                /\ title = "response_item." \o sub \o "."
                              \o to_text(DictGetOr(p, "name", JStr("unknown_tool")))
                /\ keys = {"name", "call_id"}
                            \cup (IF FieldText(rec, "status") # "" THEN {"status"} ELSE {})
          [] type = "response_item"
                /\ sub \in {"function_call_output", "custom_tool_call_output"} ->
                /\ title = "response_item." \o sub
                /\ keys = {"call_id"}
          [] type = "response_item" /\ sub = "web_search_call" ->
                LET action == DictGet(p, "action")
                    action_type == IF IsDict(action) THEN to_text(DictGet(action, "type"))
                                   ELSE ""
                IN  /\ title = IF action_type # ""
                               THEN "response_item.web_search_call." \o action_type
                               ELSE "response_item.web_search_call"
                    /\ keys = {"status"} \cup (IF action_type # "" THEN {"action_type"} ELSE {})
          [] OTHER ->
                /\ title = "response_item." \o sub
                /\ keys = {}

\* C5: for every record of a known (type, payload.type) pair summarize_record
\* returns the title pattern and the meta keys of section 4.2: the fixed title
\* and six keys of session_meta, the six keys of turn_context,
\* event_msg.<subtype> with the two image counts for user_message,
\* response_item.<subtype> refined by role, tool name or action type, with
\* role and optional phase, name, call_id and optional status, call_id, or
\* status and optional action_type.
C5_KnownPairsTitleAndMeta ==
    (pc = "done" /\ IsKnownKind(arg_record)) =>
        /\ ret_summary.st = "return"
        /\ KnownPairResult(arg_record, ret_summary.title, KindKeys(ret_summary.meta))

\* what C5 says of the records on which summarize_record returns
KnownPairsWhenReturned ==
    (pc = "done" /\ IsKnownKind(arg_record) /\ ret_summary.st = "return") =>
        KnownPairResult(arg_record, ret_summary.title, KindKeys(ret_summary.meta))

\* the fallbacks of C6: the generic rendering of a record whose payload is
\* absent or no object or whose type is not a known one, and the single JSON
\* block of an unrecognized event_msg or response_item subtype
ClassificationFallbacks(rec, res) ==
    /\ ~IsKnownKind(rec) =>
          /\ res.title = TypeText(rec)
          /\ res.meta = << <<"line_type", TypeText(rec)>> >>
          /\ res.blocks = << Block("record", to_pretty_json(rec), "json") >>
    /\ (IsKnownKind(rec) /\ TypeText(rec) = "event_msg"
            /\ SubtypeText(rec) \notin EventSubtypes) =>
          res.blocks = << Block("payload", to_pretty_json(PayloadOf(rec)), "json") >>
    /\ (IsKnownKind(rec) /\ TypeText(rec) = "response_item"
            /\ SubtypeText(rec) \notin ItemSubtypes) =>
          res.blocks = << Block("payload", to_pretty_json(PayloadOf(rec)), "json") >>

\* C6: classification is total and never faults: for every record, whatever
\* the presence or JSON shape of the fields it reads, summarize_record returns
\* a (title, meta, blocks) triple without raising, with the generic rendering
\* for a missing or non-object payload or an unrecognized type and a single
\* JSON block of the sub-payload for an unrecognized subtype.
C6_ClassificationTotal ==
    pc = "done" =>
        /\ ret_summary.st = "return"
        /\ ClassificationFallbacks(arg_record, ret_summary)

\* what C6 says of the records on which summarize_record returns
FallbacksWhenReturned ==
    (pc = "done" /\ ret_summary.st = "return") =>
        ClassificationFallbacks(arg_record, ret_summary)

\* the user messages whose images or local_images hold true or a number
\* other than 0, of which len() raises TypeError
UnsizedImages(record) ==
    /\ IsKnownKind(record)
    /\ TypeText(record) = "event_msg"
    /\ SubtypeText(record) = "user_message"
    /\ \E key \in {"images", "local_images"} :
          LET v == DictGet(PayloadOf(record), key)
          IN  v.k \in {"bool", "num"} /\ Truthy(v)

\* the calls and call outputs whose embedded JSON holds an int of more
\* digits than int() converts, on which json.loads raises ValueError
OverlongEmbeddedInt(record) ==
    /\ IsKnownKind(record)
    /\ TypeText(record) = "response_item"
    /\ \E kind \in {<<"function_call", "arguments">>, <<"custom_tool_call", "input">>,
                     <<"function_call_output", "output">>,
                     <<"custom_tool_call_output", "output">>} :
          /\ SubtypeText(record) = kind[1]
          /\ LET v == DictGet(PayloadOf(record), kind[2])
             IN  IsStr(v) /\ v.vs = OverlongIntArray

\* the records on which summarize_record raises
RaisesOnlyOnUnsizedImages ==
    pc = "done" =>
        (ret_summary.st = "raise" <=>
            UnsizedImages(arg_record) \/ OverlongEmbeddedInt(arg_record))

(***************************************************************************)
(* Claims on extract_message_blocks.                                       *)
(***************************************************************************)
\* the type an item is labeled with: its type, "unknown" when it has none
ItemTypeOrUnknown(item) ==
    IF IsDict(item) /\ HasKey(item, "type") THEN PyStr(DictGet(item, "type"))
    ELSE "unknown"

\* the text of the block of an item: the text of an object that has one, a
\* JSON dump of any other object, the item itself as text when it is no object
ItemText(item) ==
    IF ~IsDict(item) THEN to_text(item)
    ELSE IF HasKey(item, "text") /\ ~IsNone(DictGet(item, "text"))
    THEN to_text(DictGet(item, "text"))
    ELSE to_pretty_json(item)

\* C7 as stated: extraction over a list of N items returns N blocks in input
\* order, whatever the items; the i-th is labeled content[i] (<item.type or
\* "unknown">), and holds item.text, else a JSON dump of the item, or the
\* item stringified when it is no object.
C7_BlocksLabeledWithType ==
    (pc = "done" /\ IsList(arg_content)) =>
        /\ Len(ret_blocks) = Len(arg_content.vl)
        /\ \A i \in 1..Len(ret_blocks) :
              /\ ret_blocks[i].label =
                    "content[" \o DecStr(i) \o "] ("
                        \o ItemTypeOrUnknown(arg_content.vl[i]) \o ")"
              /\ ret_blocks[i].text = ItemText(arg_content.vl[i])

\* C7 amended: N items give N blocks in input order; the block of an object
\* is labeled content[i] (<type>), with the item's type as str() shows it and
\* "unknown" when it has no type key, and holds item.text when that is
\* present and not null, else a JSON dump of the item; the block of an item
\* that is no object is labeled content[i], with no type, and holds the item
\* as text.
C7_BlocksPerItem ==
    (pc = "done" /\ IsList(arg_content)) =>
        /\ Len(ret_blocks) = Len(arg_content.vl)
        /\ \A i \in 1..Len(ret_blocks) :
              LET item == arg_content.vl[i]
              IN  /\ ret_blocks[i].label =
                        IF IsDict(item)
                        THEN "content[" \o DecStr(i) \o "] (" \o ItemTypeOrUnknown(item) \o ")"
                        ELSE "content[" \o DecStr(i) \o "]"
                  /\ ret_blocks[i].text = ItemText(item)
                  /\ ret_blocks[i].language = "text"

\* a list of an object with a text, an object without, and a plain string
\* gave three blocks
C7_Witness ==
    /\ pc = "done"
    /\ arg_content = JList(<<
            JObj(<<Item("type", JStr("input_text")), Item("text", JStr("hello"))>>),
            JObj(<<Item("type", JStr("output_text"))>>),
            JStr("plain")>>)
    /\ ret_blocks = <<
            Block("content[1] (input_text)", "hello", "text"),
            Block("content[2] (output_text)", "{\n  \"type\": \"output_text\"\n}", "text"),
            Block("content[3]", "plain", "text")>>

(***************************************************************************)
(* The session files iter_jsonl and render_session_markdown are given. A   *)
(* line of the catalogue comes with what it is: blank, undecodable (with   *)
(* the message of the JSONDecodeError), or the value it decodes to.        *)
(***************************************************************************)
BlankLine ==
    [body |-> "", kind |-> "blank", message |-> "", value |-> JNull]

SpacesLine ==
    [body |-> "  \t ", kind |-> "blank", message |-> "", value |-> JNull]

TextLine ==
    [body |-> "not json", kind |-> "undecodable",
     message |-> "Expecting value: line 1 column 1 (char 0)", value |-> JNull]

CutLine ==
    [body |-> "{\"type\": \"event_msg\"", kind |-> "undecodable",
     message |-> "Expecting ',' delimiter: line 1 column 21 (char 20)", value |-> JNull]

ArrayLine ==
    [body |-> "[1, 2]",
     kind |-> "non_object", message |-> "",
     value |-> JList(<<JNum(1), JNum(2)>>)]

NullLine ==
    [body |-> "null",
     kind |-> "non_object", message |-> "",
     value |-> JNull]

EmptyObjectLine ==
    [body |-> "{}",
     kind |-> "object", message |-> "",
     value |-> JObj(<<>>)]

SessionMetaLine ==
    [body |-> "{\"timestamp\": \"2026-01-02T03:04:05Z\", \"type\": \"session_meta\", \"payload\": {\"id\": \"s1\", \"cwd\": \"/w\"}}",
     kind |-> "object", message |-> "",
     value |-> JObj(<<Item("timestamp", JStr("2026-01-02T03:04:05Z")), Item("type", JStr("session_meta")), Item("payload", JObj(<<Item("id", JStr("s1")), Item("cwd", JStr("/w"))>>))>>)]

FunctionCallLine ==
    [body |-> "{\"type\": \"response_item\", \"payload\": {\"type\": \"function_call\", \"name\": \"shell\", \"arguments\": \"{\\\"cmd\\\": \\\"ls\\\"}\"}}",
     kind |-> "object", message |-> "",
     value |-> JObj(<<Item("type", JStr("response_item")), Item("payload", JObj(<<Item("type", JStr("function_call")), Item("name", JStr("shell")), Item("arguments", JStr("{\"cmd\": \"ls\"}"))>>))>>)]

UnsizedImagesLine ==
    [body |-> "{\"type\": \"event_msg\", \"payload\": {\"type\": \"user_message\", \"images\": 5}}",
     kind |-> "object", message |-> "",
     value |-> JObj(<<Item("type", JStr("event_msg")), Item("payload", JObj(<<Item("type", JStr("user_message")), Item("images", JNum(5))>>))>>)]

FencedMessageLine ==
    [body |-> "{\"type\": \"response_item\", \"payload\": {\"type\": \"message\", \"role\": \"assistant\", \"content\": [{\"type\": \"output_text\", \"text\": \"^^^sh\"}]}}",
     kind |-> "object", message |-> "",
     value |-> JObj(<<Item("type", JStr("response_item")), Item("payload", JObj(<<Item("type", JStr("message")), Item("role", JStr("assistant")), Item("content", JList(<<JObj(<<Item("type", JStr("output_text")), Item("text", JStr("^^^sh"))>>)>>))>>))>>)]

AgentMessageLine ==
    [body |-> "{\"type\": \"event_msg\", \"payload\": {\"type\": \"agent_message\", \"message\": \"abcdefghijklmnopqrstuvwxyz\"}}",
     kind |-> "object", message |-> "",
     value |-> JObj(<<Item("type", JStr("event_msg")), Item("payload", JObj(<<Item("type", JStr("agent_message")), Item("message", JStr("abcdefghijklmnopqrstuvwxyz"))>>))>>)]

\* a line whose int json.loads does not convert
OverlongIntLine ==
    [body |-> OverlongInt, kind |-> "overlong", message |-> "", value |-> JNull]

LineCatalogue ==
    { BlankLine, SpacesLine, TextLine, CutLine, ArrayLine, NullLine, EmptyObjectLine,
      SessionMetaLine, FunctionCallLine, UnsizedImagesLine, FencedMessageLine,
      AgentMessageLine, OverlongIntLine }

CatalogueEntry(raw_line) ==
    CHOOSE e \in LineCatalogue : e.body = RStripNewlines(raw_line)

\* the physical lines of a file with these line bodies: each ends with a
\* newline, but the last when the file has no final newline
PhysicalLines(bodies, final_newline) ==
    [n \in 1..Len(bodies) |->
        IF n < Len(bodies) \/ final_newline THEN bodies[n].body \o "\n"
        ELSE bodies[n].body]

\* the last line of a file without a final newline is not empty
SessionLines ==
    { PhysicalLines(bodies, final_newline) :
        bodies \in ListsUpTo(LineCatalogue, MaxLines), final_newline \in {TRUE} }
    \cup
    { PhysicalLines(bodies, FALSE) :
        bodies \in { b \in ListsUpTo(LineCatalogue, MaxLines) :
                        b # <<>> /\ b[Len(b)].body # "" } }

SessionFiles ==
    { [dir |-> "/home/u/.codex/sessions/2026/01/02", name |-> "rollout-a.jsonl"] }

\* datetime.now().isoformat(timespec="seconds")
Clock == { "2026-01-02T03:04:05", "2026-11-30T23:59:59" }

\* the defaults of --truncate-threshold and --truncate-keep
DefaultTruncateThreshold == 2000
DefaultTruncateKeep == 800
\* a threshold and a keep that the texts of the catalogue exceed
ShortThreshold == 10
ShortKeep == 5

\* main() refuses a threshold or a keep below 1 and a keep above the threshold
Policies ==
    { pol \in { <<DefaultTruncateThreshold, DefaultTruncateKeep>>,
                <<ShortThreshold, ShortKeep>> } :
        pol[1] >= 1 /\ pol[2] >= 1 /\ pol[2] <= pol[1] }

(***************************************************************************)
(* The specification of the converter: a session file is read by           *)
(* iter_jsonl, or rendered by render_session_markdown.                     *)
(***************************************************************************)
InitConvert ==
    /\ session_file \in SessionFiles
    /\ arg_lines \in SessionLines
    /\ mode \in {"concise", "full"}
    /\ \E pol \in Policies : threshold = pol[1] /\ keep = pol[2]
    /\ text = "" /\ out1 = "" /\ out2 = "" /\ calls = 0
    /\ ret_records = NoResult
    /\ ret_doc = NoResult
    /\ ClassifyIdle
    /\ ExtractIdle
    /\ LocatorIdle
    /\ FenceIdle
    /\ MainIdle
    /\ pc = "call"

IterJsonl ==
    /\ pc = "call"
    /\ ret_records' = iter_jsonl(arg_lines)
    /\ pc' = "iterated"
    /\ UNCHANGED <<session_file, arg_lines, ret_doc, tvars, svars, evars, lvars, fvars, mvars>>

RenderSessionMarkdown ==
    /\ pc = "call"
    /\ \E now \in Clock :
          ret_doc' = render_session_markdown(session_file, arg_lines, now,
                                             mode, threshold, keep)
    /\ pc' = "rendered"
    /\ UNCHANGED <<session_file, arg_lines, ret_records, tvars, svars, evars, lvars, fvars, mvars>>

NextConvert == IterJsonl \/ RenderSessionMarkdown

SpecConvert == InitConvert /\ [][NextConvert]_vars

(***************************************************************************)
(* Claims on iter_jsonl.                                                   *)
(***************************************************************************)
\* the record the claim gives for a line of the catalogue
ClaimedRecord(entry, line) ==
    CASE entry.kind = "blank" ->
            JObj(<<Item("type", JStr("empty_line")),
                   Item("payload", JObj(<<Item("raw_line", JStr(""))>>))>>)
      [] entry.kind = "undecodable" ->
            JObj(<<Item("type", JStr("parse_error")),
                   Item("payload", JObj(<<Item("error", JStr(entry.message)),
                                          Item("raw_line", JStr(line))>>))>>)
      [] entry.kind = "non_object" ->
            JObj(<<Item("type", JStr("non_object_line")),
                   Item("payload", JObj(<<Item("value", entry.value)>>))>>)
      [] entry.kind = "object" -> entry.value
      [] OTHER -> JNull

\* the pairs yielded are those of the first n lines, as the claim gives them
ClaimedPairs(pairs, n) ==
    /\ Len(pairs) = n
    /\ \A k \in 1..n :
          /\ pairs[k][1] = k
          /\ pairs[k][2] = ClaimedRecord(CatalogueEntry(arg_lines[k]),
                                         CatalogueEntry(arg_lines[k]).body)

\* the lines whose int json.loads does not convert
OverlongLines == { n \in 1..Len(arg_lines) : CatalogueEntry(arg_lines[n]).kind = "overlong" }

\* C3: for a file of N physical lines, iter_jsonl never aborts and yields
\* exactly N pairs, numbered 1..N in order: an empty_line record with raw_line
\* "" for a blank line, a parse_error record with the decoder's message and the
\* line verbatim for a line that does not decode, a non_object_line record with
\* the value for a line that decodes to no object, the decoded object
\* otherwise.
C3_EveryLineYieldsOneRecord ==
    pc = "iterated" =>
        /\ ret_records.st = "return"
        /\ ClaimedPairs(ret_records.pairs, Len(arg_lines))

\* what C3 says of the files none of whose lines holds an int that
\* json.loads does not convert
OneRecordPerLineWhenConverted ==
    (pc = "iterated" /\ OverlongLines = {}) =>
        /\ ret_records.st = "return"
        /\ ClaimedPairs(ret_records.pairs, Len(arg_lines))

\* iter_jsonl aborts with ValueError at the first line that holds such an
\* int, after the pairs of the lines before it
AbortsAtOverlongLine ==
    (pc = "iterated" /\ OverlongLines # {}) =>
        /\ ret_records.st = "raise"
        /\ ret_records.exc = "ValueError"
        /\ \E first \in OverlongLines :
              /\ \A o \in OverlongLines : first <= o
              /\ ClaimedPairs(ret_records.pairs, first - 1)

(***************************************************************************)
(* Claims on render_session_markdown.                                      *)
(***************************************************************************)
\* the title that summarize_record gives the record of line k, alone
TitleOfLine(k) == summarize_record(LineRecord(arg_lines[k])).title

\* the document has one section per line, in line order, with the title,
\* the sequence index and the line number of the line's record
OneSectionPerLine(doc) ==
    LET N == Len(arg_lines)
    IN  /\ \E i \in 1..Len(doc.header) :
              doc.header[i] = "- total_records: " \o Quoted(DecStr(N))
        /\ Len(doc.sections) = N
        /\ \A k \in 1..N :
              /\ doc.sections[k][1] = "## " \o Pad4(k) \o ". " \o Quoted(TitleOfLine(k))
              /\ doc.sections[k][3] = "- jsonl_line: " \o Quoted(DecStr(k))
        /\ doc.text = JoinLines(doc.header \o Flatten(doc.sections))

\* C4: the document assembled for a file of N lines reports
\* total_records = N and has exactly one section per line, in line order; the
\* k-th section carries the title classification gives the k-th record alone,
\* the 1-based index k and the line number of the record.
C4_OneSectionPerLine ==
    pc = "rendered" =>
        /\ ret_doc.st = "return"
        /\ OneSectionPerLine(ret_doc)

\* the lines on whose record summarize_record raises
UnclassifiedLines ==
    { n \in 1..Len(arg_lines) :
        /\ ~IsThrown(LineRecord(arg_lines[n]))
        /\ summarize_record(LineRecord(arg_lines[n])).st = "raise" }

\* what C4 says of the documents that are assembled
SectionsWhenAssembled ==
    (pc = "rendered" /\ ret_doc.st = "return") => OneSectionPerLine(ret_doc)

\* no document is assembled exactly when iter_jsonl aborts or
\* summarize_record raises on the record of a line
NoDocumentExactlyOnRaise ==
    pc = "rendered" =>
        (ret_doc.st = "raise" <=> (OverlongLines # {} \/ UnclassifiedLines # {}))
(***************************************************************************)
(* The session trees find_sessions is given. A file of the catalogue comes *)
(* with what its first record is: the normalized cwd of its payload ("" if *)
(* it has none that is a str), the date of its timestamp (NoDate if it has *)
(* none that parses), and the exception the locator raises on it ("" if    *)
(* none).                                                                  *)
(***************************************************************************)
UnreadableFile ==
    [kind |-> "unreadable",
     first_line |-> "",
     cwd |-> "", date |-> NoDate, fault |-> ""]

InvalidUtf8File ==
    [kind |-> "invalid_utf8",
     first_line |-> "",
     cwd |-> "", date |-> NoDate, fault |-> "UnicodeDecodeError"]

EmptyFile ==
    [kind |-> "text",
     first_line |-> "",
     cwd |-> "", date |-> NoDate, fault |-> ""]

BlankFirstLineFile ==
    [kind |-> "text",
     first_line |-> " \n",
     cwd |-> "", date |-> NoDate, fault |-> ""]

TextFile ==
    [kind |-> "text",
     first_line |-> "not json\n",
     cwd |-> "", date |-> NoDate, fault |-> ""]

ArrayFile ==
    [kind |-> "text",
     first_line |-> "[1, 2]\n",
     cwd |-> "", date |-> NoDate, fault |-> ""]

NoPayloadFile ==
    [kind |-> "text",
     first_line |-> "{\"timestamp\": \"2026-01-31T08:25:09.350Z\", \"type\": \"session_meta\"}\n",
     cwd |-> "", date |-> NoDate, fault |-> ""]

NullPayloadFile ==
    [kind |-> "text",
     first_line |-> "{\"timestamp\": \"2026-01-31T08:25:09.350Z\", \"type\": \"session_meta\", \"payload\": null}\n",
     cwd |-> "", date |-> NoDate, fault |-> "AttributeError"]

TextPayloadFile ==
    [kind |-> "text",
     first_line |-> "{\"timestamp\": \"2026-01-31T08:25:09.350Z\", \"payload\": \"/w/proj\"}\n",
     cwd |-> "", date |-> NoDate, fault |-> "AttributeError"]

NumberCwdFile ==
    [kind |-> "text",
     first_line |-> "{\"timestamp\": \"2026-01-31T08:25:09.350Z\", \"payload\": {\"cwd\": 5}}\n",
     cwd |-> "", date |-> NoDate, fault |-> ""]

OtherWorkspaceFile ==
    [kind |-> "text",
     first_line |-> "{\"timestamp\": \"2026-01-31T08:25:09.350Z\", \"payload\": {\"cwd\": \"/w/other\"}}\n",
     cwd |-> "/w/other", date |-> Date(2026, 1, 31), fault |-> ""]

FirstDayFile ==
    [kind |-> "text",
     first_line |-> "{\"timestamp\": \"2026-01-31T08:25:09.350Z\", \"type\": \"session_meta\", \"payload\": {\"id\": \"s1\", \"cwd\": \"/w/proj\"}}\n",
     cwd |-> "/w/proj", date |-> Date(2026, 1, 31), fault |-> ""]

SecondDayFile ==
    [kind |-> "text",
     first_line |-> "{\"timestamp\": \"2026-02-01T00:30:00+00:00\", \"payload\": {\"cwd\": \"/w/./proj/\"}}\n",
     cwd |-> "/w/proj", date |-> Date(2026, 2, 1), fault |-> ""]

PayloadTimestampFile ==
    [kind |-> "text",
     first_line |-> "{\"timestamp\": 5, \"payload\": {\"cwd\": \"/w/proj\", \"timestamp\": \"2026-01-31T23:30:00-05:00\"}}\n",
     cwd |-> "/w/proj", date |-> Date(2026, 1, 31), fault |-> ""]

BadTimestampFile ==
    [kind |-> "text",
     first_line |-> "{\"timestamp\": \"not a date\", \"payload\": {\"cwd\": \"/w/proj\", \"timestamp\": \"2026-01-31T08:25:09.350Z\"}}\n",
     cwd |-> "/w/proj", date |-> NoDate, fault |-> ""]

NoTimestampFile ==
    [kind |-> "text",
     first_line |-> "{\"payload\": {\"cwd\": \"/w/proj\"}}\n",
     cwd |-> "/w/proj", date |-> NoDate, fault |-> ""]

EarlierDayFile ==
    [kind |-> "text",
     first_line |-> "{\"timestamp\": \"2026-01-30T10:00:00Z\", \"payload\": {\"cwd\": \"/w/proj\"}}\n",
     cwd |-> "/w/proj", date |-> Date(2026, 1, 30), fault |-> ""]

WorkspaceArgs ==
    { [raw |-> "/w/proj", normal |-> "/w/proj"],
      [raw |-> "/w/x/../proj/", normal |-> "/w/proj"] }

FileContents ==
    { UnreadableFile, InvalidUtf8File, EmptyFile, BlankFirstLineFile, TextFile,
      ArrayFile, NoPayloadFile, NullPayloadFile, TextPayloadFile, NumberCwdFile,
      OtherWorkspaceFile, FirstDayFile, SecondDayFile, PayloadTimestampFile,
      BadTimestampFile, NoTimestampFile, EarlierDayFile }

\* the names of the files of a day directory; the last is no log file
LogNames == { "rollout-a.jsonl", "rollout-b.jsonl" }
OtherNames == { "notes.txt" }

\* the days with a directory: the last of a month and those that follow
FirstDay == Date(2026, 1, 31)

RECURSIVE DaysFrom(_, _)
DaysFrom(d, n) == IF n = 0 THEN {} ELSE {d} \cup DaysFrom(NextDay(d), n - 1)

Days == DaysFrom(FirstDay, MaxDays)

\* the file of a day directory with this name and this content
FileAt(day, name, content) ==
    [day |-> day, dir |-> DayDir(day), name |-> name, kind |-> content.kind,
     first_line |-> content.first_line, cwd |-> content.cwd,
     date |-> content.date, fault |-> content.fault]

\* a file that is no log file holds the first line of a session that matches
AllFiles ==
    { FileAt(day, name, content) : day \in Days, name \in LogNames, content \in FileContents }
    \cup { FileAt(day, name, FirstDayFile) : day \in Days, name \in OtherNames }

RECURSIVE FileSetsUpTo(_)
FileSetsUpTo(n) ==
    IF n = 0 THEN { {} }
    ELSE LET fewer == FileSetsUpTo(n - 1)
         IN  fewer \cup
             { files \cup {f} : files \in { fs \in fewer : Cardinality(fs) = n - 1 },
                                f \in AllFiles }

\* no two files of a directory have the same name
FileSets ==
    { files \in FileSetsUpTo(MaxFiles) :
        \A f \in files, g \in files : (f.dir = g.dir /\ f.name = g.name) => f = g }

SessionsRoots == { "/home/u/.codex/sessions" }

(***************************************************************************)
(* The specification of the locator: find_sessions is called on a sessions *)
(* tree with a workspace and a date range that main() accepts.             *)
(***************************************************************************)
InitLocator ==
    /\ sessions_root \in SessionsRoots
    /\ fs_files \in FileSets
    /\ fs_dirs \in { dirs \in SUBSET { DayDir(d) : d \in Days } :
                        \A f \in fs_files : f.dir \in dirs }
    /\ arg_workspace \in { w.raw : w \in WorkspaceArgs }
    /\ arg_start \in Days
    /\ arg_end \in { d \in Days : DateLeq(arg_start, d) }
    /\ ret_paths = NoResult
    /\ TruncateIdle
    /\ ClassifyIdle
    /\ ExtractIdle
    /\ ConvertIdle
    /\ FenceIdle
    /\ MainIdle
    /\ pc = "call"

FindSessions ==
    /\ pc = "call"
    /\ ret_paths' = find_sessions(sessions_root, fs_dirs, fs_files,
                                  arg_workspace, arg_start, arg_end)
    /\ pc' = "found"
    /\ UNCHANGED <<sessions_root, fs_dirs, fs_files, arg_workspace, arg_start,
                   arg_end, tvars, svars, evars, cvars, fvars, mvars>>

NextLocator == FindSessions

SpecLocator == InitLocator /\ [][NextLocator]_vars

(***************************************************************************)
(* What the locator is said to return, told from what the files are: the   *)
(* log files of the day directories asked for, whose first record names    *)
(* the workspace and a date in the range.                                  *)
(***************************************************************************)
NormalizedWorkspace == (CHOOSE w \in WorkspaceArgs : w.raw = arg_workspace).normal

IsLogFile(f) == f.kind \in {"unreadable", "invalid_utf8", "text"} /\ EndsWith(f.name, ".jsonl")

\* the log files under the day directories of the days lo..hi
LogFilesOf(lo, hi) ==
    { f \in fs_files : IsLogFile(f) /\ DateLeq(lo, f.day) /\ DateLeq(f.day, hi) }

\* those whose first record names the workspace and a date in lo..hi
MatchingFiles(lo, hi) ==
    { f \in LogFilesOf(lo, hi) :
        /\ f.cwd = NormalizedWorkspace
        /\ f.date # NoDate
        /\ DateLeq(lo, f.date) /\ DateLeq(f.date, hi) }

Elements(seq) == { seq[i] : i \in 1..Len(seq) }
Ascending(paths) == \A i \in 1..(Len(paths) - 1) : StrLess(paths[i], paths[i + 1])
NoDuplicates(paths) == \A i \in 1..Len(paths), j \in 1..Len(paths) : paths[i] = paths[j] => i = j
PathsOf(files) == { FilePath(sessions_root, f) : f \in files }

Found == pc = "found"
FoundOneDay == Found /\ arg_start = arg_end

\* C8: for a range of one day D, find_sessions returns exactly the paths of
\* the log files under root/YYYY/MM/DD whose first record names the
\* workspace and the date D
C8_SingleDayExact ==
    FoundOneDay =>
        /\ ret_paths.st = "return"
        /\ Elements(ret_paths.paths) = PathsOf(MatchingFiles(arg_start, arg_start))

\* when find_sessions returns for a range of one day, it returns exactly
\* those paths
SingleDayExactWhenReturned ==
    (FoundOneDay /\ ret_paths.st = "return") =>
        /\ Elements(ret_paths.paths) = PathsOf(MatchingFiles(arg_start, arg_start))
        /\ Ascending(ret_paths.paths)

\* the result of find_sessions for each single day of the range, in order
SingleDayResults ==
    LET days == date_range(arg_start, arg_end)
    IN  [i \in 1..Len(days) |->
            find_sessions(sessions_root, fs_dirs, fs_files, arg_workspace,
                          days[i], days[i])]

AllReturn(results) == \A i \in 1..Len(results) : results[i].st = "return"
Concatenated(results) == Flatten([i \in 1..Len(results) |-> results[i].paths])

\* C9: the result for a range is the concatenation, in date order, of the
\* results for its single days; it is sorted by path and has no duplicates
C9_RangeIsConcatenationOfDays ==
    Found =>
        /\ ret_paths.st = "return"
        /\ AllReturn(SingleDayResults)
        /\ ret_paths.paths = Concatenated(SingleDayResults)
        /\ Ascending(ret_paths.paths)
        /\ NoDuplicates(ret_paths.paths)

\* a range of more than one day whose files raise nothing, and whose result
\* is not what the single days give
CrossDayFound ==
    /\ Found
    /\ ret_paths.st = "return"
    /\ AllReturn(SingleDayResults)
    /\ ret_paths.paths # Concatenated(SingleDayResults)

\* the date of the first record is compared with the whole range, not with
\* the day of the directory: when find_sessions returns, it returns the
\* paths of the files of the range that match, in ascending order
RangeResultWhenReturned ==
    (Found /\ ret_paths.st = "return") =>
        /\ Elements(ret_paths.paths) = PathsOf(MatchingFiles(arg_start, arg_end))
        /\ Ascending(ret_paths.paths)
        /\ NoDuplicates(ret_paths.paths)

\* and the single days then give the paths of it whose record has the date
\* of the day directory
FileOfPath(path) == CHOOSE f \in fs_files : FilePath(sessions_root, f) = path

SingleDaysGiveOwnDates ==
    (Found /\ ret_paths.st = "return") =>
        /\ AllReturn(SingleDayResults)
        /\ Concatenated(SingleDayResults) =
              SelectSeq(ret_paths.paths, LAMBDA path : FileOfPath(path).date = FileOfPath(path).day)

\* C10: find_sessions leaves out, and raises nothing on, a file that cannot
\* be read, whose first line is blank, no JSON or no object, or whose first
\* record has no cwd or no timestamp that is a string, or a timestamp that
\* does not parse
C10_BadFilesAreLeftOut ==
    Found => ret_paths.st = "return"

\* find_sessions raises exactly when a log file of the range has a first
\* line that raises: bytes that are no UTF-8, or a payload that is no dict
FaultyFiles == { f \in LogFilesOf(arg_start, arg_end) : f.fault # "" }

RaisesExactlyOnFaultyFiles ==
    Found =>
        /\ ret_paths.st = "raise" <=> FaultyFiles # {}
        /\ ret_paths.st = "raise" =>
              \E f \in FaultyFiles :
                  /\ ret_paths.exc = f.fault
                  /\ \A g \in FaultyFiles :
                        g = f \/ StrLess(FilePath(sessions_root, f), FilePath(sessions_root, g))

\* the files named in C10 that raise nothing are left out
QuietBadFiles ==
    { f \in LogFilesOf(arg_start, arg_end) : f.fault = "" /\ (f.cwd = "" \/ f.date = NoDate) }

QuietBadFilesAreLeftOut ==
    (Found /\ ret_paths.st = "return") =>
        PathsOf(QuietBadFiles) \cap Elements(ret_paths.paths) = {}

\* a payload that is no dict has been met
RaisedOnPayload ==
    Found /\ ret_paths.st = "raise" /\ ret_paths.exc = "AttributeError"

\* a file that raises nothing has been left out
LeftOutQuietly ==
    Found /\ ret_paths.st = "return" /\ QuietBadFiles # {}

(***************************************************************************)
(* The specification of the fence: format_code_block is called on a text   *)
(* of backticks, tildes, letters and newlines, with a language of a Block. *)
(***************************************************************************)
FenceChars == { Backtick, "~", "a", "\n" }

RECURSIVE TextsOfLength(_)
TextsOfLength(n) ==
    IF n = 0 THEN { "" }
    ELSE { t \o ch : t \in TextsOfLength(n - 1), ch \in FenceChars }

TextsUpTo(n) == UNION { TextsOfLength(k) : k \in 0..n }

Languages == { "text", "json" }

InitFence ==
    /\ arg_text \in TextsUpTo(MaxFenceTextLen)
    /\ arg_language \in Languages
    /\ ret_fenced = NoResult
    /\ TruncateIdle
    /\ ClassifyIdle
    /\ ExtractIdle
    /\ ConvertIdle
    /\ LocatorIdle
    /\ MainIdle
    /\ pc = "call"

FormatCodeBlock ==
    /\ pc = "call"
    /\ ret_fenced' = format_code_block(arg_text, arg_language)
    /\ pc' = "fenced"
    /\ UNCHANGED <<arg_text, arg_language, tvars, svars, evars, cvars, lvars, mvars>>

NextFence == FormatCodeBlock

SpecFence == InitFence /\ [][NextFence]_vars

TripleBacktick == Backtick \o Backtick \o Backtick

\* four or more of one character that is no backtick
IsAlternateFence(fence) ==
    /\ Len(fence) >= 4
    /\ Ch(fence, 1) # Backtick
    /\ \A i \in 1..Len(fence) : Ch(fence, i) = Ch(fence, 1)

Fenced == pc = "fenced"

\* C11: format_code_block uses the 3-backtick fence only on a text without
\* a 3-backtick sequence, else a fence of 4 or more of another character,
\* and the fence chosen occurs nowhere in the text it encloses
C11_FenceNeverCollides ==
    Fenced =>
        /\ ret_fenced[3] = TripleBacktick => ~Contains(arg_text, TripleBacktick)
        /\ ret_fenced[3] # TripleBacktick =>
              Contains(arg_text, TripleBacktick) /\ IsAlternateFence(ret_fenced[3])
        /\ ~Contains(arg_text, ret_fenced[3])

\* the lines returned are the fence with the language, the text, the fence;
\* the fence is 3 backticks exactly on a text without 3 backticks in a row,
\* else an alternate fence
FenceAsChosen ==
    Fenced =>
        /\ ret_fenced = << ret_fenced[3] \o arg_language, arg_text, ret_fenced[3] >>
        /\ ret_fenced[3] = TripleBacktick <=> ~Contains(arg_text, TripleBacktick)
        /\ ret_fenced[3] # TripleBacktick => IsAlternateFence(ret_fenced[3])

\* the fence occurs in the text exactly when the text holds 3 backticks in
\* a row and 4 tildes in a row
CollidesExactlyOnBoth ==
    Fenced =>
        (Contains(arg_text, ret_fenced[3]) <=>
            (Contains(arg_text, TripleBacktick) /\ Contains(arg_text, "~~~~")))

\* a text that holds its own fence has been fenced
FenceCollides == Fenced /\ Contains(arg_text, ret_fenced[3])

(***************************************************************************)
(* The specification of main: the converter is run on inputs that name     *)
(* session logs and directories of them, two of the logs with the same     *)
(* stem, with an output directory where some of the output names are       *)
(* taken, or with an output file.                                          *)
(***************************************************************************)
\* the session logs: the second is one that render_session_markdown renders
\* or one that it raises on
InputTree(second_log) ==
    [q \in { "/in", "/in/x", "/in/y", "/in/x/a.jsonl", "/in/x/b.jsonl",
             "/in/x/notes.txt", "/in/y/a.jsonl" } |->
        CASE q \in { "/in", "/in/x", "/in/y" } -> Directory
          [] q = "/in/x/a.jsonl" -> LogFile(PhysicalLines(<< SessionMetaLine >>, TRUE))
          [] q = "/in/x/b.jsonl" -> LogFile(PhysicalLines(<< second_log >>, TRUE))
          [] q = "/in/x/notes.txt" -> TextFileOf("notes")
          [] q = "/in/y/a.jsonl" -> LogFile(PhysicalLines(<< AgentMessageLine >>, FALSE))]

SecondLogs == { FunctionCallLine, UnsizedImagesLine }

InputItems ==
    { "/in/x", "/in/y", "/in/x/a.jsonl", "/in/y/a.jsonl", "/in/x/b.jsonl",
      "/in/x/notes.txt", "/in/none" }

OutputDir == "/out"

\* the output names that may be taken before main runs
TakenNames(m) ==
    { "a." \o m \o ".md", "b." \o m \o ".md" }
    \cup { "a." \o m \o "." \o DecStr(k) \o ".md" : k \in 2..MaxTaken }

\* the file system with these files in the output directory
WithTaken(fs, names) ==
    [q \in DOMAIN fs \cup { Under(OutputDir, n) : n \in names } |->
        IF q \in DOMAIN fs THEN fs[q] ELSE TextFileOf("kept")]

\* --output-file: not given, a name of the output directory, or a file of
\* a directory that does not exist
OutputFiles(m) == { "", Under(OutputDir, "a." \o m \o ".md"), "/traces/new/trace.md" }

\* the defaults, and a keep above the threshold
MainPolicies ==
    { <<DefaultTruncateThreshold, DefaultTruncateKeep>>, <<ShortKeep, ShortThreshold>> }

InitMain ==
    /\ \E inputs \in ListsUpTo(InputItems, MaxInputs) \ { <<>> },
          m \in { "concise", "full" },
          pol \in MainPolicies :
          \E output_file \in OutputFiles(m) :
              args = [inputs |-> inputs, mode |-> m, truncate_threshold |-> pol[1],
                      truncate_keep |-> pol[2], output_dir |-> OutputDir,
                      output_file |-> output_file]
    /\ \E second_log \in SecondLogs, names \in SUBSET TakenNames(args.mode),
          out_exists \in BOOLEAN :
          /\ names # {} => out_exists
          /\ disk = WithTaken(IF out_exists THEN MadeDir(InputTree(second_log), OutputDir)
                              ELSE InputTree(second_log), names)
    /\ input_files = <<>>
    /\ handled = 0
    /\ markdown = NoResult
    /\ generated = <<>>
    /\ TruncateIdle
    /\ ClassifyIdle
    /\ ExtractIdle
    /\ ConvertIdle
    /\ LocatorIdle
    /\ FenceIdle
    /\ pc = "main"

\* where main goes after lines 418-431, given what normalize_input_files gives
AfterArguments(found) ==
    IF ~PolicyAccepted(args) THEN "exit"
    ELSE IF found.st = "raise" THEN "raised"
    ELSE IF found.files = <<>> THEN "exit"
    ELSE IF args.output_file = "" THEN "render"
    ELSE IF Len(found.files) # 1 THEN "exit"
    ELSE "render_single"

\* lines 418-431 and, with no output file, lines 445-448
Started(found, next_pc) ==
    /\ input_files' = IF next_pc \in { "render", "render_single" } THEN found.files ELSE <<>>
    /\ disk' = IF next_pc = "render" THEN MadeDir(disk, args.output_dir) ELSE disk
    /\ pc' = next_pc
    /\ UNCHANGED <<args, handled, markdown, generated>>

MainArguments ==
    /\ pc = "main"
    /\ Started(normalize_input_files(disk, args.inputs),
               AfterArguments(normalize_input_files(disk, args.inputs)))
    /\ UNCHANGED <<tvars, svars, evars, cvars, lvars, fvars>>

\* the call of render_session_markdown, given what it gives: the document
\* is in memory, or the exception leaves main
InMemory(txt) == [st |-> "str", text |-> txt]

Assembled(doc, next_pc) ==
    /\ markdown' = IF doc.st = "raise" THEN NoResult ELSE InMemory(doc.text)
    /\ pc' = IF doc.st = "raise" THEN "raised" ELSE next_pc
    /\ UNCHANGED <<args, input_files, disk, handled, generated>>

RenderOf(path, now) ==
    render_session_markdown(SessionFileOf(path), disk[path].lines, now, args.mode,
                            args.truncate_threshold, args.truncate_keep)

\* lines 435-440
RenderSingle ==
    /\ pc = "render_single"
    /\ \E now \in Clock : Assembled(RenderOf(input_files[1], now), "write_single")
    /\ UNCHANGED <<tvars, svars, evars, cvars, lvars, fvars>>

\* lines 434 and 441-444
WriteSingle ==
    /\ pc = "write_single"
    /\ disk' = Written(MadeDir(disk, ParentOf(args.output_file)), args.output_file, markdown.text)
    /\ generated' = << args.output_file >>
    /\ pc' = "done"
    /\ UNCHANGED <<args, input_files, handled, markdown>>
    /\ UNCHANGED <<tvars, svars, evars, cvars, lvars, fvars>>

\* lines 449-455
RenderNext ==
    /\ pc = "render"
    /\ handled < Len(input_files)
    /\ \E now \in Clock : Assembled(RenderOf(input_files[handled + 1], now), "write")
    /\ UNCHANGED <<tvars, svars, evars, cvars, lvars, fvars>>

\* lines 456-458
WriteNext ==
    /\ pc = "write"
    /\ disk' = Written(disk, safe_output_path(disk, args.output_dir,
                                              input_files[handled + 1], args.mode),
                       markdown.text)
    /\ generated' = Append(generated, safe_output_path(disk, args.output_dir,
                                                       input_files[handled + 1], args.mode))
    /\ handled' = handled + 1
    /\ pc' = "render"
    /\ UNCHANGED <<args, input_files, markdown>>
    /\ UNCHANGED <<tvars, svars, evars, cvars, lvars, fvars>>

\* line 460
PrintGenerated ==
    /\ pc = "render"
    /\ handled = Len(input_files)
    /\ pc' = "done"
    /\ UNCHANGED <<mvars, tvars, svars, evars, cvars, lvars, fvars>>

NextMain ==
    \/ MainArguments
    \/ RenderSingle
    \/ WriteSingle
    \/ RenderNext
    \/ WriteNext
    \/ PrintGenerated

SpecMain == InitMain /\ [][NextMain]_vars

(***************************************************************************)
(* Claims on the persisting of documents. A step of main persists a        *)
(* document when it adds a path to the paths generated; the log it was     *)
(* assembled from is the input file the loop is at.                        *)
(***************************************************************************)
Persists == generated' # generated
PersistedPath == generated'[Len(generated')]
CurrentLog == input_files[handled + 1]

\* the files and directories that exist stay as they are
NothingReplaced == \A q \in DOMAIN disk : q \in DOMAIN disk' /\ disk'[q] = disk[q]

\* <stem>.<mode>.md in the output directory, and <stem>.<mode>.<k>.md
ClaimedBase == Under(args.output_dir, StemOf(CurrentLog) \o "." \o args.mode \o ".md")
ClaimedIndexed(k) ==
    Under(args.output_dir, StemOf(CurrentLog) \o "." \o args.mode \o "." \o DecStr(k) \o ".md")

\* the base name when it is free, else the name of the smallest free k >= 2
ClaimedPath ==
    IF ClaimedBase \notin DOMAIN disk THEN ClaimedBase
    ELSE ClaimedIndexed(CHOOSE k \in 2..(Cardinality(DOMAIN disk) + 2) :
                            /\ ClaimedIndexed(k) \notin DOMAIN disk
                            /\ \A j \in 2..(k - 1) : ClaimedIndexed(j) \in DOMAIN disk)

\* the document in memory is the whole document of the current log, and it
\* is the text of the file written
WritesAssembledDocument ==
    /\ markdown # NoResult
    /\ \E now \in Clock :
          /\ RenderOf(CurrentLog, now).st = "return"
          /\ RenderOf(CurrentLog, now).text = markdown.text
    /\ disk'[PersistedPath] = TextFileOf(markdown.text)

PersistsAsClaimed ==
    /\ NothingReplaced
    /\ Persists =>
          /\ PersistedPath \notin DOMAIN disk
          /\ PersistedPath \notin Elements(generated)
          /\ PersistedPath = ClaimedPath
          /\ WritesAssembledDocument

\* C12: in any run of main, no step replaces a file that exists; every
\* document is written to a path that did not exist just before, distinct
\* from the paths written before, which is <stem>.<mode>.md when free and
\* else <stem>.<mode>.<k>.md for the smallest free k >= 2, and what is
\* written is the document fully assembled in memory
C12_NeverOverwrites == [][PersistsAsClaimed]_vars

\* without --output-file, main persists as claimed
PersistsAsClaimedInOutputDir == [][args.output_file = "" => PersistsAsClaimed]_vars

\* with --output-file, the document assembled is written to the path given,
\* whether or not a file is there, and no other file changes
OutputFileWrittenAsGiven ==
    [][(args.output_file # "" /\ Persists) =>
          /\ PersistedPath = args.output_file
          /\ WritesAssembledDocument
          /\ \A q \in DOMAIN disk \ { args.output_file } :
                q \in DOMAIN disk' /\ disk'[q] = disk[q]]_vars

\* the paths generated are distinct, and each holds a document
GeneratedDistinct ==
    /\ NoDuplicates(generated)
    /\ \A i \in 1..Len(generated) : IsFile(disk, generated[i])

\* main is about to write the output file given, where a file is
OutputFileTaken == pc = "write_single" /\ args.output_file \in DOMAIN disk

\* two logs of the same stem have been persisted where the base name and the
\* names of the indexes up to MaxTaken were taken
IndexedPastTaken ==
    /\ pc = "done"
    /\ Len(generated) >= 2
    /\ \E i \in 1..Len(generated) :
          generated[i] = Under(OutputDir, "a." \o args.mode \o "." \o DecStr(MaxTaken + 2) \o ".md")

\* a run has stopped on a log that raises, after it persisted another
RaisedAfterPersisting == pc = "raised" /\ generated # <<>>

=============================================================================
